---- MODULE Spec2Model ----
(***************************************************************************)
(* Model of the rune utilities of whimsy (lib/runeutil/rune.ts and         *)
(* lib/runeutil/constants.ts): the code point classifier, the sanitizer's  *)
(* per-character pass, the escape-sequence stripper and the width          *)
(* calculator; of the text helpers visibleLength and truncate; of the      *)
(* Chrono stopwatch; of the Spinner and Whirl spinners and whirlPromise;   *)
(* and of the cursors Cursor, Wink and CursorModel.                        *)
(*                                                                         *)
(* A JavaScript string is a sequence of UTF-16 code units (naturals below  *)
(* 65536).  Array.from(string) splits it into characters, each one unit or *)
(* a surrogate pair; String.prototype.length and slice count code units.   *)
(* An optional field of SanitizerOptions is a set: {} when the field is    *)
(* undefined, {v} when it holds v.  customReplacements is a function from  *)
(* the mapped code points to their replacement strings.                    *)
(***************************************************************************)
EXTENDS Integers, Sequences, FiniteSets, TLC

VARIABLES
  pc,                     \* the call last made: "ready" before any call
  codePoint,              \* categorizeCharacter's codePoint argument
  char,                   \* the char argument of categorizeCharacter / getCharWidth
  options,                \* the SanitizerOptions value of the call
  category,               \* what categorizeCharacter returned
  width,                  \* what getCharWidth returned
  utilAvailable,          \* whether globalThis.require('util').stripVTControlCharacters exists
  input,                  \* the input string of stripVTControlSequences / sanitizeString
  output,                 \* the string the last call returned
  codePoints,             \* processCharacters: the characters iterated so far
  result,                 \* processCharacters: the fragments pushed so far
  consecutiveWhitespace,  \* processCharacters: the counter
  pushed,                 \* history: the fragments each character pushed
  counts,                 \* history: the counter after each character
  truncateLength,         \* truncate's maxLength argument
  suffix,                 \* truncate's suffix argument
  instances,              \* the Chrono objects constructed so far, in order
  receiver,               \* the object the last Chrono method was called on (0: none)
  before,                 \* history: the receiver's fields (and more) when the call began
  returned,               \* what the last method returned: object and command
  inflight,               \* tick commands handed out and not yet resolved, by sequence
  message,                \* the message the last update was given: {} if none, or {msg}
  spinner,                \* the Spinner object: its fields
  whirl,                  \* the Whirl object: its fields
  timers,                 \* the timers of setTimeout and setInterval not fired or cleared
  rendered,               \* whether the last call or timer wrote a frame to the stream
  persisted,              \* the symbols of the lines stopAndPersist wrote, last one only
  promise,                \* the call of whirlPromise: its action and the promise it returned
  cursor,                 \* the Cursor object: its fields, those of its BlinkController inside
  signals,                \* the AbortControllers created so far: whether each is aborted
  loops,                  \* the blink loops waiting for their timeout or in their sleep
  acted,                  \* history: the loops whose callback toggled the cursor in the last step
  wasReset,               \* history: reset() was called after mode and focus last changed
  wink,                   \* the Wink or CursorModel object: its fields
  issued,                 \* history: the commands handed out, in order: the blink message of
                          \* each and whether a focus message or a reset came after it
  resolved,               \* the blink messages the timers have resolved commands to
  progress,               \* the Progress object: its fields
  twigs,                  \* the Twig objects created so far, in order: the fields of each
  renderers,              \* the Renderer objects created so far: depth and maxDepth of each
  builder,                \* the TwigBuilder object: its fields, Twigs by their number
  calls,                  \* history: the beginNode calls and the endNode calls that returned
  session                 \* the filter() call: its closure variables and what it resolved with

vars ==
  <<pc, codePoint, char, options, category, width, utilAvailable, input, output,
    codePoints, result, consecutiveWhitespace, pushed, counts, truncateLength, suffix,
    instances, receiver, before, returned, inflight, message, spinner,
    whirl, timers, rendered, persisted, promise,
    cursor, signals, loops, acted, wasReset, wink, issued, resolved,
    progress, twigs, renderers, builder, calls, session>>

charVars == <<codePoint, char, category, width>>
stripVars == <<utilAvailable, input>>
passVars == <<codePoints, result, consecutiveWhitespace, pushed, counts>>
truncateVars == <<truncateLength, suffix>>
chronoVars == <<instances, receiver, before, returned, inflight, message>>
whirlVars == <<whirl, timers, rendered, persisted, promise>>
cursorVars == <<cursor, signals, loops, acted, wasReset>>
winkVars == <<wink, issued, resolved>>
appVars == <<progress, twigs, renderers, builder, calls, session>>
uiVars == <<spinner, whirlVars, cursorVars, winkVars, appVars>>

\* No call of truncate, no Chrono constructed
IdleTruncate == truncateLength = 0 /\ suffix = <<>>
IdleChrono ==
  /\ instances = <<>>
  /\ receiver = 0
  /\ before = <<>>
  /\ returned = [ref |-> 0, cmd |-> {}]
  /\ inflight = <<>>
  /\ message = {}

\* No Whirl constructed
IdleWhirl ==
  /\ whirl = <<>>
  /\ timers = {}
  /\ rendered = FALSE
  /\ persisted = {}
  /\ promise = <<>>

\* No Cursor constructed
IdleCursor ==
  /\ cursor = <<>>
  /\ signals = <<>>
  /\ loops = {}
  /\ acted = {}
  /\ wasReset = FALSE

\* No Wink and no CursorModel constructed
IdleWink ==
  /\ wink = <<>>
  /\ issued = <<>>
  /\ resolved = {}

\* No Progress, no Twig, no Renderer, no TwigBuilder constructed, no call of
\* filter()
IdleApp ==
  /\ progress = <<>>
  /\ twigs = <<>>
  /\ renderers = <<>>
  /\ builder = <<>>
  /\ calls = <<>>
  /\ session = <<>>

\* No Spinner, no Whirl, no Cursor, no Wink constructed, and none of the above
IdleUi ==
  /\ spinner = <<>>
  /\ IdleWhirl
  /\ IdleCursor
  /\ IdleWink
  /\ IdleApp

(***************************************************************************)
(* Strings and optional values                                             *)
(***************************************************************************)
Range(s) == {s[i] : i \in DOMAIN s}

Max(S) == CHOOSE x \in S : \A y \in S : y <= x

\* a ?? b
OrElse(opt, dflt) == IF opt = {} THEN dflt ELSE CHOOSE v \in opt : TRUE

RECURSIVE Join(_)
\* Array.prototype.join('') of an array of strings
Join(fragments) ==
  IF fragments = <<>> THEN <<>> ELSE Head(fragments) \o Join(Tail(fragments))

\* String.prototype.slice(0, n), n >= 0
Slice(str, n) == IF n >= Len(str) THEN str ELSE SubSeq(str, 1, n)

IsHighSurrogate(u) == u >= 55296 /\ u <= 56319
IsLowSurrogate(u) == u >= 56320 /\ u <= 57343

\* String.fromCodePoint(cp)
FromCodePoint(cp) ==
  IF cp > 65535
    THEN <<55296 + ((cp - 65536) \div 1024), 56320 + ((cp - 65536) % 1024)>>
    ELSE <<cp>>

\* String.prototype.codePointAt(0) of a non-empty string
CodePointAt0(str) ==
  IF Len(str) >= 2 /\ IsHighSurrogate(str[1]) /\ IsLowSurrogate(str[2])
    THEN 65536 + (str[1] - 55296) * 1024 + (str[2] - 56320)
    ELSE str[1]

RECURSIVE ArrayFrom(_)
\* Array.from(string): the string's characters, a surrogate pair being one
ArrayFrom(str) ==
  IF str = <<>> THEN <<>>
  ELSE IF Len(str) >= 2 /\ IsHighSurrogate(str[1]) /\ IsLowSurrogate(str[2])
    THEN <<SubSeq(str, 1, 2)>> \o ArrayFrom(SubSeq(str, 3, Len(str)))
    ELSE <<SubSeq(str, 1, 1)>> \o ArrayFrom(Tail(str))

CR == <<13>>
LF == <<10>>
TAB == <<9>>

(***************************************************************************)
(* Classification tables (constants.ts), code points in decimal            *)
(***************************************************************************)
WHITESPACE_CODE_POINTS ==
  {
    9, 10, 11, 12, 13, 32, 160, 5760,
    8192, 8193, 8194, 8195, 8196, 8197, 8198, 8199,
    8200, 8201, 8202, 8232, 8233, 8239, 8287, 12288
  }

ZERO_WIDTH_CODE_POINTS ==
  {
    8203, 8204, 8205, 65279
  }

DIRECTIONAL_CODE_POINTS ==
  {
    8206, 8207, 8234, 8235, 8236, 8237, 8238, 8294,
    8295, 8296, 8297
  }

FORMATTING_CODE_POINTS ==
  {
    1564, 8288, 8289, 8290, 8291, 8292, 8294, 8295,
    8296, 8297
  }

\* EMOJI_RANGES with its first two ranges exchanged
EMOJI_RANGES_Unsorted ==
  <<
    <<128640, 128767>>, <<127744, 128591>>, <<128768, 128895>>, <<128896, 129023>>,
    <<129024, 129279>>, <<129280, 129535>>, <<129536, 129647>>, <<129648, 129791>>
  >>

EMOJI_RANGES ==
  <<
    <<127744, 128591>>, <<128640, 128767>>, <<128768, 128895>>, <<128896, 129023>>,
    <<129024, 129279>>, <<129280, 129535>>, <<129536, 129647>>, <<129648, 129791>>
  >>

WIDE_CHAR_RANGES ==
  <<
    <<4352, 4447>>, <<9001, 9002>>, <<11904, 11929>>, <<11931, 12019>>,
    <<12032, 12245>>, <<12272, 12283>>, <<12288, 12350>>, <<12353, 12438>>,
    <<12441, 12543>>, <<12549, 12591>>, <<12593, 12686>>, <<12688, 12771>>,
    <<12784, 12830>>, <<12832, 12871>>, <<12880, 19903>>, <<19968, 42182>>,
    <<43360, 43388>>, <<44032, 55203>>, <<63744, 64255>>, <<65281, 65376>>,
    <<65504, 65510>>
  >>

FULL_WIDTH_RANGES ==
  <<
    <<65281, 65376>>, <<65504, 65510>>
  >>

AMBIGUOUS_WIDTH_RANGES ==
  <<
    <<161, 161>>, <<164, 164>>, <<167, 168>>, <<170, 170>>,
    <<173, 174>>, <<176, 180>>, <<182, 186>>, <<188, 191>>,
    <<198, 198>>, <<208, 208>>, <<215, 216>>, <<222, 225>>,
    <<230, 230>>, <<232, 234>>, <<236, 237>>, <<240, 240>>,
    <<242, 243>>, <<247, 250>>, <<252, 252>>, <<254, 254>>,
    <<257, 257>>, <<273, 273>>, <<275, 275>>, <<283, 283>>,
    <<294, 295>>, <<299, 299>>, <<305, 307>>, <<312, 312>>,
    <<319, 322>>, <<324, 324>>, <<328, 331>>, <<333, 333>>,
    <<338, 339>>, <<358, 359>>, <<363, 363>>, <<462, 462>>,
    <<464, 464>>, <<466, 466>>, <<468, 468>>, <<470, 470>>,
    <<472, 472>>, <<474, 474>>, <<476, 476>>, <<593, 593>>,
    <<609, 609>>, <<708, 708>>, <<711, 711>>, <<713, 715>>,
    <<717, 717>>, <<720, 720>>, <<728, 731>>, <<733, 733>>,
    <<8213, 8214>>, <<8216, 8217>>, <<8220, 8221>>, <<8224, 8226>>,
    <<8228, 8231>>, <<8240, 8240>>, <<8242, 8243>>, <<8245, 8245>>,
    <<8251, 8251>>, <<8254, 8254>>, <<8308, 8308>>, <<8319, 8319>>,
    <<8321, 8324>>, <<8364, 8364>>, <<8451, 8451>>, <<8453, 8453>>,
    <<8457, 8457>>, <<8467, 8467>>, <<8470, 8470>>, <<8481, 8482>>,
    <<8486, 8486>>, <<8491, 8491>>, <<8531, 8532>>, <<8539, 8542>>,
    <<8544, 8555>>, <<8560, 8569>>, <<8585, 8585>>, <<8592, 8601>>,
    <<8632, 8633>>, <<8658, 8658>>, <<8660, 8660>>, <<8679, 8679>>,
    <<8704, 8704>>, <<8706, 8707>>, <<8711, 8712>>, <<8715, 8715>>,
    <<8719, 8719>>, <<8721, 8721>>, <<8725, 8725>>, <<8730, 8730>>,
    <<8733, 8736>>, <<8739, 8739>>, <<8741, 8741>>, <<8743, 8748>>,
    <<8750, 8750>>, <<8756, 8759>>, <<8764, 8765>>, <<8776, 8776>>,
    <<8780, 8780>>, <<8786, 8786>>, <<8800, 8801>>, <<8804, 8807>>,
    <<8810, 8811>>, <<8814, 8815>>, <<8834, 8835>>, <<8838, 8839>>,
    <<8853, 8853>>, <<8857, 8857>>, <<8869, 8869>>, <<8895, 8895>>,
    <<8978, 8978>>, <<9312, 9449>>, <<9451, 9547>>, <<9552, 9587>>,
    <<9600, 9615>>, <<9618, 9621>>, <<9632, 9633>>, <<9635, 9641>>,
    <<9650, 9651>>, <<9654, 9655>>, <<9660, 9661>>, <<9664, 9665>>,
    <<9670, 9672>>, <<9675, 9675>>, <<9678, 9681>>, <<9698, 9701>>,
    <<9711, 9711>>, <<9733, 9734>>, <<9737, 9737>>, <<9742, 9743>>,
    <<9748, 9749>>, <<9756, 9756>>, <<9758, 9758>>, <<9792, 9792>>,
    <<9794, 9794>>, <<9824, 9825>>, <<9827, 9829>>, <<9831, 9834>>,
    <<9836, 9837>>, <<9839, 9839>>, <<9886, 9887>>, <<9919, 9919>>,
    <<9926, 9933>>, <<9935, 9939>>, <<9941, 9953>>, <<9955, 9955>>,
    <<9960, 9961>>, <<9963, 9969>>, <<9972, 9972>>, <<9974, 9977>>,
    <<9979, 9980>>, <<9982, 9983>>, <<10045, 10045>>, <<10102, 10111>>,
    <<11094, 11097>>, <<12872, 12879>>, <<57344, 63743>>, <<65024, 65039>>,
    <<65533, 65533>>
  >>

(***************************************************************************)
(* Predicates and the classifier (rune.ts)                                 *)
(***************************************************************************)
InRanges(ranges, cp) ==
  \E i \in DOMAIN ranges : cp >= ranges[i][1] /\ cp <= ranges[i][2]

isControlCharacter(cp) == (cp <= 31) \/ (cp >= 127 /\ cp <= 159)

isWhitespace(cp) == cp \in WHITESPACE_CODE_POINTS

isZeroWidth(cp) == cp \in ZERO_WIDTH_CODE_POINTS

isDirectionalMark(cp) == cp \in DIRECTIONAL_CODE_POINTS

isFormatting(cp) == cp \in FORMATTING_CODE_POINTS

isEmoji(cp) == InRanges(EMOJI_RANGES, cp)

isWideChar(cp) == InRanges(WIDE_CHAR_RANGES, cp)

isFullWidth(cp) == InRanges(FULL_WIDTH_RANGES, cp)

isAmbiguousWidth(cp) == InRanges(AMBIGUOUS_WIDTH_RANGES, cp)

CharacterCategory ==
  {"CONTROL", "WHITESPACE", "NEWLINE", "TAB", "PRINTABLE", "INVALID", "ZERO_WIDTH",
   "FORMATTING", "DIRECTIONAL_MARK", "EMOJI", "WIDE_CHAR", "FULL_WIDTH",
   "AMBIGUOUS_WIDTH"}

\* categorizeCharacter with the formatting table consulted before the
\* directional one
categorizeCharacter_FormattingFirst(cp, c) ==
  IF cp = 65533 THEN "INVALID"
  ELSE IF c = CR \/ c = LF THEN "NEWLINE"
  ELSE IF c = TAB THEN "TAB"
  ELSE IF isControlCharacter(cp) THEN "CONTROL"
  ELSE IF isZeroWidth(cp) THEN "ZERO_WIDTH"
  ELSE IF isFormatting(cp) THEN "FORMATTING"
  ELSE IF isDirectionalMark(cp) THEN "DIRECTIONAL_MARK"
  ELSE IF isEmoji(cp) THEN "EMOJI"
  ELSE IF isWideChar(cp) THEN "WIDE_CHAR"
  ELSE IF isFullWidth(cp) THEN "FULL_WIDTH"
  ELSE IF isAmbiguousWidth(cp) THEN "AMBIGUOUS_WIDTH"
  ELSE IF isWhitespace(cp) THEN "WHITESPACE"
  ELSE "PRINTABLE"

categorizeCharacter(cp, c) ==
  IF cp = 65533 THEN "INVALID"
  ELSE IF c = CR \/ c = LF THEN "NEWLINE"
  ELSE IF c = TAB THEN "TAB"
  ELSE IF isControlCharacter(cp) THEN "CONTROL"
  ELSE IF isZeroWidth(cp) THEN "ZERO_WIDTH"
  ELSE IF isDirectionalMark(cp) THEN "DIRECTIONAL_MARK"
  ELSE IF isFormatting(cp) THEN "FORMATTING"
  ELSE IF isEmoji(cp) THEN "EMOJI"
  ELSE IF isWideChar(cp) THEN "WIDE_CHAR"
  ELSE IF isFullWidth(cp) THEN "FULL_WIDTH"
  ELSE IF isAmbiguousWidth(cp) THEN "AMBIGUOUS_WIDTH"
  ELSE IF isWhitespace(cp) THEN "WHITESPACE"
  ELSE "PRINTABLE"

(***************************************************************************)
(* The width of one character (rune.ts)                                    *)
(***************************************************************************)
\* getCharWidth with the wide table consulted before the full-width one
getCharWidth_WideFirst(c, opts) ==
  IF c = <<>> THEN 0
  ELSE LET cp == CodePointAt0(c)
       IN IF isEmoji(cp) THEN OrElse(opts.emojiWidth, 2)
          ELSE IF isWideChar(cp) THEN OrElse(opts.wideWidth, 2)
          ELSE IF isFullWidth(cp) THEN OrElse(opts.fullWidthWidth, 2)
          ELSE IF isAmbiguousWidth(cp) THEN OrElse(opts.ambiguousWidth, 1)
          ELSE IF isZeroWidth(cp) THEN 0
          ELSE IF isControlCharacter(cp) THEN 0
          ELSE 1

getCharWidth(c, opts) ==
  IF c = <<>> THEN 0
  ELSE LET cp == CodePointAt0(c)
       IN IF isEmoji(cp) THEN OrElse(opts.emojiWidth, 2)
          ELSE IF isFullWidth(cp) THEN OrElse(opts.fullWidthWidth, 2)
          ELSE IF isWideChar(cp) THEN OrElse(opts.wideWidth, 2)
          ELSE IF isAmbiguousWidth(cp) THEN OrElse(opts.ambiguousWidth, 1)
          ELSE IF isZeroWidth(cp) THEN 0
          ELSE IF isControlCharacter(cp) THEN 0
          ELSE 1

(***************************************************************************)
(* stripVTControlSequences (rune.ts)                                       *)
(***************************************************************************)
\* The index after the longest run of units of the class cls that starts at i
\* (a greedy X* of the regular expression).
RunEnd(cls, str, i) ==
  CHOOSE j \in i..(Len(str) + 1) :
    /\ \A k \in i..(j - 1) : str[k] \in cls
    /\ (j = Len(str) + 1 \/ str[j] \notin cls)

\* Greedy X{0,4}: as RunEnd, at most four units long.
RunEnd4(cls, str, i) ==
  LET j == RunEnd(cls, str, i) IN IF j > i + 4 THEN i + 4 ELSE j

EscSecond == (64..90) \cup (92..95)        \* [@-Z\\-_]
CsiParam == (48..57) \cup {63}             \* [0-9?]
CsiIntermediate == 32..47                  \* [ -/]
CsiFinal == 64..126                        \* [@-~]

\* RegexMatchEnd with ; accepted among the parameter units
RegexMatchEnd_SemicolonParams(str, i) ==
  IF str[i] # 27 \/ i = Len(str) THEN 0
  ELSE IF str[i + 1] \in EscSecond THEN i + 2
  ELSE IF str[i + 1] # 91 THEN 0
  ELSE LET j == RunEnd(CsiParam \cup {59}, str, i + 2)
           k == RunEnd(CsiIntermediate, str, j)
       IN IF k <= Len(str) /\ str[k] \in CsiFinal THEN k + 1 ELSE 0

\* The match of /\u001B(?:[@-Z\\-_]|\[[0-9?]*[ -/]*[@-~])/ that starts at unit i:
\* the index after it, or 0 when there is none.  The three classes of the CSI
\* alternative are disjoint, so giving back units of a greedy run never helps.
RegexMatchEnd(str, i) ==
  IF str[i] # 27 \/ i = Len(str) THEN 0
  ELSE IF str[i + 1] \in EscSecond THEN i + 2
  ELSE IF str[i + 1] # 91 THEN 0
  ELSE LET j == RunEnd(CsiParam, str, i + 2)
           k == RunEnd(CsiIntermediate, str, j)
       IN IF k <= Len(str) /\ str[k] \in CsiFinal THEN k + 1 ELSE 0

RECURSIVE RegexReplace(_, _)
\* input.replace(/.../g, ''), from unit i on
RegexReplace(str, i) ==
  IF i > Len(str) THEN <<>>
  ELSE LET e == RegexMatchEnd(str, i)
       IN IF e # 0 THEN RegexReplace(str, e)
          ELSE <<str[i]>> \o RegexReplace(str, i + 1)

(***************************************************************************)
(* util.stripVTControlCharacters, the Node.js primitive the function       *)
(* prefers when it finds it.  It is input.replace(ansi, '') where ansi is  *)
(* a start unit (ESC or U+009B), any number of prefix units, and then one  *)
(* of two alternatives: an operating-system-command body ended by BEL      *)
(* (later releases: BEL, ESC \ or U+009C), or optional parameters (one to  *)
(* four digits, then any number of groups of ; and up to four digits) and  *)
(* a final unit.  The first alternative matches no string without its      *)
(* terminator; the model is of the primitive on such strings.              *)
(* Backtracking is depth first, the longest run first.                     *)
(***************************************************************************)
Digit == 48..57
AnsiStart == {27, 155}
AnsiPrefix == {91, 93, 40, 41, 35, 59, 63}      \* [ ] ( ) # ; ?
\* digits, A-P, R-T, Z, c, f-n, t, q, r, y, = > < ~
AnsiFinal ==
  Digit \cup (65..80) \cup (82..84) \cup {90, 99} \cup (102..110)
    \cup {116, 113, 114, 121} \cup {61, 62, 60, 126}

RECURSIVE AnsiParamsEnd(_, _)
\* Any number of groups (; and up to four digits) and then the final unit,
\* from unit i: the index after the match, or 0
AnsiParamsEnd(str, i) ==
  LET viaMore ==
        IF i <= Len(str) /\ str[i] = 59
          THEN LET ok == {j \in (i + 1)..RunEnd4(Digit, str, i + 1) :
                            AnsiParamsEnd(str, j) # 0}
               IN IF ok = {} THEN 0 ELSE AnsiParamsEnd(str, Max(ok))
          ELSE 0
  IN IF viaMore # 0 THEN viaMore
     ELSE IF i <= Len(str) /\ str[i] \in AnsiFinal THEN i + 1
     ELSE 0

\* The optional parameters and the final unit, from unit i
AnsiTailEnd(str, i) ==
  LET ok == {j \in (i + 1)..RunEnd4(Digit, str, i) : AnsiParamsEnd(str, j) # 0}
  IN IF ok # {} THEN AnsiParamsEnd(str, Max(ok))
     ELSE IF i <= Len(str) /\ str[i] \in AnsiFinal THEN i + 1
     ELSE 0

\* The match of the primitive's pattern that starts at unit i, or 0
AnsiMatchEnd(str, i) ==
  IF str[i] \notin AnsiStart THEN 0
  ELSE LET ok == {j \in (i + 1)..RunEnd(AnsiPrefix, str, i + 1) :
                    AnsiTailEnd(str, j) # 0}
       IN IF ok = {} THEN 0 ELSE AnsiTailEnd(str, Max(ok))

RECURSIVE AnsiReplace(_, _)
AnsiReplace(str, i) ==
  IF i > Len(str) THEN <<>>
  ELSE LET e == AnsiMatchEnd(str, i)
       IN IF e # 0 THEN AnsiReplace(str, e)
          ELSE <<str[i]>> \o AnsiReplace(str, i + 1)

utilStripVTControlCharacters(str) == AnsiReplace(str, 1)

\* util is what the lookup through globalThis.require found: TRUE when the
\* runtime offers util.stripVTControlCharacters
stripVTControlSequences(str, util) ==
  IF util THEN utilStripVTControlCharacters(str) ELSE RegexReplace(str, 1)

(***************************************************************************)
(* The sanitizer (rune.ts)                                                 *)
(***************************************************************************)
\* handleWhitespaceLimit comparing with <= : one substitute too many
handleWhitespaceLimit_Inclusive(res, c, count, maxConsecutiveWhitespace) ==
  IF maxConsecutiveWhitespace = 0 \/ count <= maxConsecutiveWhitespace
    THEN Append(res, c)
    ELSE res

handleWhitespaceLimit(res, c, count, maxConsecutiveWhitespace) ==
  IF maxConsecutiveWhitespace = 0 \/ count < maxConsecutiveWhitespace
    THEN Append(res, c)
    ELSE res

\* A string option that is set and not the empty string
Truthy(opt) == opt # {} /\ opt # {<<>>}

\* processCharacter returning 0 wherever it drops a character
processCharacter_DroppedResets(c, cp, res, count, opts) ==
  IF cp \in DOMAIN opts.customReplacements
    THEN [result |-> Append(res, opts.customReplacements[cp]),
          count |-> IF isWhitespace(cp) THEN count + 1 ELSE 0]
  ELSE LET cat == categorizeCharacter(cp, c)
           limit == OrElse(opts.maxConsecutiveWhitespace, 0)
       IN CASE cat = "INVALID" ->
                 [result |-> IF Truthy(opts.replaceInvalidWith)
                               THEN Append(res, OrElse(opts.replaceInvalidWith, <<>>))
                               ELSE res,
                  count |-> IF Truthy(opts.replaceInvalidWith) THEN count ELSE 0]
            [] cat = "NEWLINE" ->
                 [result |-> handleWhitespaceLimit(res, OrElse(opts.replaceNewLine, LF),
                                                   count, limit),
                  count |-> 1]
            [] cat = "TAB" ->
                 [result |-> handleWhitespaceLimit(res,
                                                   OrElse(opts.replaceTab, <<32, 32, 32, 32>>),
                                                   count, limit),
                  count |-> 1]
            [] cat = "CONTROL" ->
                 IF opts.preserveControlChars
                   THEN [result |-> Append(res, c), count |-> 0]
                   ELSE [result |-> res, count |-> 0]
            [] cat = "WHITESPACE" ->
                 [result |-> handleWhitespaceLimit(res, c, count, limit),
                  count |-> count + 1]
            [] cat = "ZERO_WIDTH" ->
                 [result |-> IF opts.preserveZeroWidth THEN Append(res, c) ELSE res,
                  count |-> IF opts.preserveZeroWidth THEN count ELSE 0]
            [] cat = "DIRECTIONAL_MARK" ->
                 [result |-> IF opts.preserveDirectional THEN Append(res, c) ELSE res,
                  count |-> IF opts.preserveDirectional THEN count ELSE 0]
            [] OTHER ->
                 [result |-> Append(res, c), count |-> 0]

\* processCharacter counting a replaced character as whitespace by its category
processCharacter_CustomByCategory(c, cp, res, count, opts) ==
  IF cp \in DOMAIN opts.customReplacements
    THEN [result |-> Append(res, opts.customReplacements[cp]),
          count |-> IF categorizeCharacter(cp, c) = "WHITESPACE" THEN count + 1 ELSE 0]
  ELSE LET cat == categorizeCharacter(cp, c)
           limit == OrElse(opts.maxConsecutiveWhitespace, 0)
       IN CASE cat = "INVALID" ->
                 [result |-> IF Truthy(opts.replaceInvalidWith)
                               THEN Append(res, OrElse(opts.replaceInvalidWith, <<>>))
                               ELSE res,
                  count |-> count]
            [] cat = "NEWLINE" ->
                 [result |-> handleWhitespaceLimit(res, OrElse(opts.replaceNewLine, LF),
                                                   count, limit),
                  count |-> 1]
            [] cat = "TAB" ->
                 [result |-> handleWhitespaceLimit(res,
                                                   OrElse(opts.replaceTab, <<32, 32, 32, 32>>),
                                                   count, limit),
                  count |-> 1]
            [] cat = "CONTROL" ->
                 IF opts.preserveControlChars
                   THEN [result |-> Append(res, c), count |-> 0]
                   ELSE [result |-> res, count |-> count]
            [] cat = "WHITESPACE" ->
                 [result |-> handleWhitespaceLimit(res, c, count, limit),
                  count |-> count + 1]
            [] cat = "ZERO_WIDTH" ->
                 [result |-> IF opts.preserveZeroWidth THEN Append(res, c) ELSE res,
                  count |-> count]
            [] cat = "DIRECTIONAL_MARK" ->
                 [result |-> IF opts.preserveDirectional THEN Append(res, c) ELSE res,
                  count |-> count]
            [] OTHER ->
                 [result |-> Append(res, c), count |-> 0]

\* processCharacter with CR LF as the default substitute of a line break
processCharacter_NewLineAsCRLF(c, cp, res, count, opts) ==
  IF cp \in DOMAIN opts.customReplacements
    THEN [result |-> Append(res, opts.customReplacements[cp]),
          count |-> IF isWhitespace(cp) THEN count + 1 ELSE 0]
  ELSE LET cat == categorizeCharacter(cp, c)
           limit == OrElse(opts.maxConsecutiveWhitespace, 0)
       IN CASE cat = "INVALID" ->
                 [result |-> IF Truthy(opts.replaceInvalidWith)
                               THEN Append(res, OrElse(opts.replaceInvalidWith, <<>>))
                               ELSE res,
                  count |-> count]
            [] cat = "NEWLINE" ->
                 [result |-> handleWhitespaceLimit(res, OrElse(opts.replaceNewLine, CR \o LF),
                                                   count, limit),
                  count |-> 1]
            [] cat = "TAB" ->
                 [result |-> handleWhitespaceLimit(res,
                                                   OrElse(opts.replaceTab, <<32, 32, 32, 32>>),
                                                   count, limit),
                  count |-> 1]
            [] cat = "CONTROL" ->
                 IF opts.preserveControlChars
                   THEN [result |-> Append(res, c), count |-> 0]
                   ELSE [result |-> res, count |-> count]
            [] cat = "WHITESPACE" ->
                 [result |-> handleWhitespaceLimit(res, c, count, limit),
                  count |-> count + 1]
            [] cat = "ZERO_WIDTH" ->
                 [result |-> IF opts.preserveZeroWidth THEN Append(res, c) ELSE res,
                  count |-> count]
            [] cat = "DIRECTIONAL_MARK" ->
                 [result |-> IF opts.preserveDirectional THEN Append(res, c) ELSE res,
                  count |-> count]
            [] OTHER ->
                 [result |-> Append(res, c), count |-> 0]

\* The call pushes onto result and returns the counter: both are returned here.
processCharacter(c, cp, res, count, opts) ==
  IF cp \in DOMAIN opts.customReplacements
    THEN [result |-> Append(res, opts.customReplacements[cp]),
          count |-> IF isWhitespace(cp) THEN count + 1 ELSE 0]
  ELSE LET cat == categorizeCharacter(cp, c)
           limit == OrElse(opts.maxConsecutiveWhitespace, 0)
       IN CASE cat = "INVALID" ->
                 [result |-> IF Truthy(opts.replaceInvalidWith)
                               THEN Append(res, OrElse(opts.replaceInvalidWith, <<>>))
                               ELSE res,
                  count |-> count]
            [] cat = "NEWLINE" ->
                 [result |-> handleWhitespaceLimit(res, OrElse(opts.replaceNewLine, LF),
                                                   count, limit),
                  count |-> 1]
            [] cat = "TAB" ->
                 [result |-> handleWhitespaceLimit(res,
                                                   OrElse(opts.replaceTab, <<32, 32, 32, 32>>),
                                                   count, limit),
                  count |-> 1]
            [] cat = "CONTROL" ->
                 IF opts.preserveControlChars
                   THEN [result |-> Append(res, c), count |-> 0]
                   ELSE [result |-> res, count |-> count]
            [] cat = "WHITESPACE" ->
                 [result |-> handleWhitespaceLimit(res, c, count, limit),
                  count |-> count + 1]
            [] cat = "ZERO_WIDTH" ->
                 [result |-> IF opts.preserveZeroWidth THEN Append(res, c) ELSE res,
                  count |-> count]
            [] cat = "DIRECTIONAL_MARK" ->
                 [result |-> IF opts.preserveDirectional THEN Append(res, c) ELSE res,
                  count |-> count]
            [] OTHER ->
                 [result |-> Append(res, c), count |-> 0]

RECURSIVE ProcessFrom(_, _, _, _)
\* The loop of processCharacters over the characters chars, from the state
\* (res, count)
ProcessFrom(chars, res, count, opts) ==
  IF chars = <<>> THEN res
  ELSE LET r == processCharacter(Head(chars), CodePointAt0(Head(chars)), res, count, opts)
       IN ProcessFrom(Tail(chars), r.result, r.count, opts)

processCharacters(str, opts) == Join(ProcessFrom(ArrayFrom(str), <<>>, 0, opts))

\* Truncate cutting to maxLength characters instead of code units
Truncate_ByCharacters(str, opts) ==
  LET maxLength == opts.maxLength
      chars == ArrayFrom(str)
  IN IF maxLength # {} /\ OrElse(maxLength, 0) > 0 /\ Len(chars) > OrElse(maxLength, 0)
       THEN Join(SubSeq(chars, 1, OrElse(maxLength, 0)))
       ELSE str

\* result.slice(0, maxLength) when maxLength is set, positive and exceeded
Truncate(str, opts) ==
  LET maxLength == opts.maxLength
  IN IF maxLength # {} /\ OrElse(maxLength, 0) > 0 /\ Len(str) > OrElse(maxLength, 0)
       THEN Slice(str, OrElse(maxLength, 0))
       ELSE str

\* unicodeNormalization is undefined in every options value of the model: the
\* normalize stage is skipped.
sanitizeString(str, opts, util) ==
  IF str = <<>> THEN <<>>
  ELSE LET processedInput ==
             IF opts.stripVTControlSequences
               THEN stripVTControlSequences(str, util)
               ELSE str
       IN Truncate(processCharacters(processedInput, opts), opts)

(***************************************************************************)
(* The width of a string (rune.ts)                                         *)
(***************************************************************************)
convertToFastStringWidthOptions(opts) ==
  [ansiWidth |-> OrElse(opts.ansiWidth, 0),
   controlWidth |-> OrElse(opts.controlWidth, 0),
   tabWidth |-> OrElse(opts.tabWidth, 8),
   ambiguousWidth |-> OrElse(opts.ambiguousWidth, 1),
   emojiWidth |-> OrElse(opts.emojiWidth, 2),
   fullWidthWidth |-> OrElse(opts.fullWidthWidth, 2),
   regularWidth |-> OrElse(opts.regularWidth, 1),
   wideWidth |-> OrElse(opts.wideWidth, 2)]

\* The CJK unified ideographs, U+4E00..U+9FFF
CjkIdeographs == 19968..40959

\* swCharWidth measuring an ideograph as a regular character
swCharWidth_IdeographRegular(cp, swOptions) ==
  IF cp = 9 THEN swOptions.tabWidth
  ELSE IF cp \in (0..8) \cup (10..31) \cup (127..159) THEN swOptions.controlWidth
  ELSE swOptions.regularWidth

\* What sw, the string width function of the fast-string-width package, adds
\* for one character: a tab, a control character, a Latin-1 printable, a CJK
\* ideograph.  The strings of the model hold no escape sequence, emoji,
\* combining mark or other character above U+00FF, which sw measures by
\* tables of its own.
swCharWidth(cp, swOptions) ==
  IF cp = 9 THEN swOptions.tabWidth
  ELSE IF cp \in (0..8) \cup (10..31) \cup (127..159) THEN swOptions.controlWidth
  ELSE IF cp \in (32..126) \cup (160..255) THEN swOptions.regularWidth
  ELSE IF cp \in CjkIdeographs THEN swOptions.wideWidth
  ELSE swOptions.regularWidth

RECURSIVE swFrom(_, _)
swFrom(chars, swOptions) ==
  IF chars = <<>> THEN 0
  ELSE swCharWidth(CodePointAt0(Head(chars)), swOptions) + swFrom(Tail(chars), swOptions)

sw(str, swOptions) == swFrom(ArrayFrom(str), swOptions)

\* options.stripVTControlSequences || options.maxConsecutiveWhitespace: a
\* number is truthy when it is set and not 0
TruthyNumber(opt) == opt # {} /\ opt # {0}

\* The string getStringWidth measures
sanitizedStr(str, opts, util) ==
  IF opts.stripVTControlSequences \/ TruthyNumber(opts.maxConsecutiveWhitespace)
    THEN sanitizeString(str, opts, util)
    ELSE str

getStringWidth(str, opts, util) ==
  sw(sanitizedStr(str, opts, util), convertToFastStringWidthOptions(opts))

(***************************************************************************)
(* Options values                                                          *)
(***************************************************************************)
\* sanitizeString's default parameter: options = {}
DefaultOptions ==
  [replaceNewLine |-> {}, replaceTab |-> {}, customReplacements |-> <<>>,
   preserveControlChars |-> FALSE, maxConsecutiveWhitespace |-> {},
   stripVTControlSequences |-> FALSE, maxLength |-> {}, replaceInvalidWith |-> {},
   preserveZeroWidth |-> FALSE, preserveDirectional |-> FALSE,
   ansiWidth |-> {}, controlWidth |-> {}, tabWidth |-> {}, regularWidth |-> {},
   emojiWidth |-> {}, fullWidthWidth |-> {}, wideWidth |-> {}, ambiguousWidth |-> {}]

\* The width options the width calculator is called with: the defaults, four
\* different widths, and single overrides.
WidthOptionSet ==
  {DefaultOptions,
   [DefaultOptions EXCEPT !.emojiWidth = {3}, !.fullWidthWidth = {4},
                          !.wideWidth = {5}, !.ambiguousWidth = {6}],
   [DefaultOptions EXCEPT !.ambiguousWidth = {2}],
   [DefaultOptions EXCEPT !.wideWidth = {1}, !.emojiWidth = {0}]}

(***************************************************************************)
(* Code points the classifier and the width calculator are called with:    *)
(* the classification is constant between two neighbouring edges of the    *)
(* tables, so the edges and their neighbours cover every case.             *)
(***************************************************************************)
RangeEdges(ranges) ==
  UNION {{ranges[i][1] - 1, ranges[i][1], ranges[i][2], ranges[i][2] + 1} :
           i \in DOMAIN ranges}

SetEdges(S) == UNION {{x - 1, x, x + 1} : x \in S}

TestCodePoints ==
  (RangeEdges(EMOJI_RANGES) \cup RangeEdges(WIDE_CHAR_RANGES)
     \cup RangeEdges(FULL_WIDTH_RANGES) \cup RangeEdges(AMBIGUOUS_WIDTH_RANGES)
     \cup SetEdges(WHITESPACE_CODE_POINTS) \cup SetEdges(ZERO_WIDTH_CODE_POINTS)
     \cup SetEdges(DIRECTIONAL_CODE_POINTS) \cup SetEdges(FORMATTING_CODE_POINTS)
     \cup {0, 31, 32, 65, 126, 127, 128, 159, 160, 55296, 57343, 65532, 65533, 65534,
           1114111})
    \cap (0..1114111)

(***************************************************************************)
(* SpecChar: one call of categorizeCharacter or of getCharWidth            *)
(***************************************************************************)
InitChar ==
  /\ pc = "ready"
  /\ codePoint \in TestCodePoints
  /\ char \in {FromCodePoint(codePoint), CR, LF, TAB, <<>>}
  /\ options \in WidthOptionSet
  /\ category = "none"
  /\ width = -1
  /\ utilAvailable = FALSE
  /\ input = <<>>
  /\ output = <<>>
  /\ codePoints = <<>>
  /\ result = <<>>
  /\ consecutiveWhitespace = 0
  /\ pushed = <<>>
  /\ counts = <<>>
  /\ IdleTruncate
  /\ IdleChrono
  /\ IdleUi

CategorizeCharacter ==
  /\ pc \in {"ready", "getCharWidth"}
  /\ pc' = "categorizeCharacter"
  /\ category' = categorizeCharacter(codePoint, char)
  /\ UNCHANGED <<codePoint, char, options, width, output, stripVars, passVars,
               truncateVars, chronoVars, uiVars>>

GetCharWidth ==
  /\ pc \in {"ready", "categorizeCharacter"}
  /\ pc' = "getCharWidth"
  /\ width' = getCharWidth(char, options)
  /\ UNCHANGED <<codePoint, char, options, category, output, stripVars, passVars,
               truncateVars, chronoVars, uiVars>>

NextChar == CategorizeCharacter \/ GetCharWidth

SpecChar == InitChar /\ [][NextChar]_vars

(***************************************************************************)
(* Claims about the classifier and the width of a character (SpecChar)     *)
(***************************************************************************)
\* The value of the first rule of a list <<condition, value>> whose condition
\* holds.
FirstMatch(rules) ==
  rules[CHOOSE i \in DOMAIN rules : rules[i][1] /\ \A j \in 1..(i - 1) : ~rules[j][1]][2]

InTable(ranges, cp) == \E r \in Range(ranges) : r[1] <= cp /\ cp <= r[2]

\* The precedence list of the classifier as the specification states it
ClassifierRules(cp, c) ==
  << <<cp = 65533, "INVALID">>,
     <<c = <<13>> \/ c = <<10>>, "NEWLINE">>,
     <<c = <<9>>, "TAB">>,
     <<cp <= 31 \/ (127 <= cp /\ cp <= 159), "CONTROL">>,
     <<cp \in ZERO_WIDTH_CODE_POINTS, "ZERO_WIDTH">>,
     <<cp \in DIRECTIONAL_CODE_POINTS, "DIRECTIONAL_MARK">>,
     <<cp \in FORMATTING_CODE_POINTS, "FORMATTING">>,
     <<InTable(EMOJI_RANGES, cp), "EMOJI">>,
     <<InTable(WIDE_CHAR_RANGES, cp), "WIDE_CHAR">>,
     <<InTable(FULL_WIDTH_RANGES, cp), "FULL_WIDTH">>,
     <<InTable(AMBIGUOUS_WIDTH_RANGES, cp), "AMBIGUOUS_WIDTH">>,
     <<cp \in WHITESPACE_CODE_POINTS, "WHITESPACE">>,
     <<TRUE, "PRINTABLE">> >>

\* C1: categorizeCharacter(p, c) returns one category, that of the first rule of
\* the precedence list that matches (INVALID, NEWLINE, TAB, CONTROL, ZERO_WIDTH,
\* DIRECTIONAL_MARK, FORMATTING, EMOJI, WIDE_CHAR, FULL_WIDTH, AMBIGUOUS_WIDTH,
\* WHITESPACE, PRINTABLE); so U+2066..U+2069 are DIRECTIONAL_MARK, U+3000 is
\* WIDE_CHAR and U+000B is CONTROL.
C1_FirstMatchingRule ==
  pc = "categorizeCharacter" =>
    /\ category \in CharacterCategory
    /\ category = FirstMatch(ClassifierRules(codePoint, char))
    /\ char = FromCodePoint(codePoint) =>
         /\ codePoint \in 8294..8297 => category = "DIRECTIONAL_MARK"
         /\ codePoint = 12288 => category = "WIDE_CHAR"
         /\ codePoint = 11 => category = "CONTROL"

\* A code point of both the directional and the formatting table was classified.
C1_Witness ==
  /\ pc = "categorizeCharacter"
  /\ codePoint \in DIRECTIONAL_CODE_POINTS \cap FORMATTING_CODE_POINTS
  /\ char = FromCodePoint(codePoint)
  /\ category = "DIRECTIONAL_MARK"

\* The priority list of the width calculator as the specification states it
WidthRules(cp, opts) ==
  << <<InTable(EMOJI_RANGES, cp), OrElse(opts.emojiWidth, 2)>>,
     <<InTable(FULL_WIDTH_RANGES, cp), OrElse(opts.fullWidthWidth, 2)>>,
     <<InTable(WIDE_CHAR_RANGES, cp), OrElse(opts.wideWidth, 2)>>,
     <<InTable(AMBIGUOUS_WIDTH_RANGES, cp), OrElse(opts.ambiguousWidth, 1)>>,
     <<cp \in ZERO_WIDTH_CODE_POINTS, 0>>,
     <<cp <= 31 \/ (127 <= cp /\ cp <= 159), 0>>,
     <<TRUE, 1>> >>

\* C10: getCharWidth(char, options) is, for the leading code point of char, the
\* width of the first that applies of: emoji (emojiWidth, default 2), full-width
\* (fullWidthWidth, 2), wide (wideWidth, 2), ambiguous (ambiguousWidth, 1),
\* zero-width (0), control (0), else 1.  Under the default options a zero-width
\* or control character has width 0, an emoji, wide or full-width character has
\* width 2, and the width is 0, 1 or 2.
C10_CharWidthPriority ==
  (pc = "getCharWidth" /\ char # <<>>) =>
    LET cp == CodePointAt0(char)
    IN /\ width = FirstMatch(WidthRules(cp, options))
       /\ options = DefaultOptions =>
            /\ (cp \in ZERO_WIDTH_CODE_POINTS \/ cp <= 31 \/ (127 <= cp /\ cp <= 159))
                 => width = 0
            /\ (InTable(EMOJI_RANGES, cp) \/ InTable(WIDE_CHAR_RANGES, cp)
                  \/ InTable(FULL_WIDTH_RANGES, cp)) => width = 2
            /\ width \in {0, 1, 2}

\* A character of both the wide and the full-width table was measured with
\* different widths configured for the two, and got the full-width one.
C10_Witness ==
  /\ pc = "getCharWidth"
  /\ char # <<>>
  /\ InTable(FULL_WIDTH_RANGES, CodePointAt0(char))
  /\ InTable(WIDE_CHAR_RANGES, CodePointAt0(char))
  /\ options.fullWidthWidth # options.wideWidth
  /\ {width} = options.fullWidthWidth

\* C11: for every character whose category from categorizeCharacter is EMOJI,
\* WIDE_CHAR, FULL_WIDTH or AMBIGUOUS_WIDTH, getCharWidth returns the configured
\* width of exactly that category (emojiWidth, wideWidth, fullWidthWidth,
\* ambiguousWidth), for every choice of the four width options.
C11_WidthOfTheCategory ==
  (category # "none" /\ width # -1 /\ char = FromCodePoint(codePoint)) =>
    /\ category = "EMOJI" => width = OrElse(options.emojiWidth, 2)
    /\ category = "WIDE_CHAR" => width = OrElse(options.wideWidth, 2)
    /\ category = "FULL_WIDTH" => width = OrElse(options.fullWidthWidth, 2)
    /\ category = "AMBIGUOUS_WIDTH" => width = OrElse(options.ambiguousWidth, 1)

\* The table is sorted ascending by start, every pair has start <= end, and
\* no two pairs overlap.
SortedDisjoint(ranges) ==
  /\ \A i \in DOMAIN ranges : ranges[i][1] <= ranges[i][2]
  /\ \A i \in DOMAIN ranges : i > 1 => ranges[i - 1][2] < ranges[i][1]

RECURSIVE BinarySearch(_, _, _, _)
\* Membership by binary search over the pairs lo..hi of the table
BinarySearch(ranges, cp, lo, hi) ==
  IF lo > hi THEN FALSE
  ELSE LET mid == (lo + hi) \div 2
       IN IF cp < ranges[mid][1] THEN BinarySearch(ranges, cp, lo, mid - 1)
          ELSE IF cp > ranges[mid][2] THEN BinarySearch(ranges, cp, mid + 1, hi)
          ELSE TRUE

SearchAgrees(ranges, cp) ==
  BinarySearch(ranges, cp, 1, Len(ranges)) = InRanges(ranges, cp)

\* C17: each of the four range tables (emoji, wide, full-width, ambiguous
\* width) is sorted ascending by start, has start <= end in every pair and no
\* two overlapping pairs, so binary-search membership over a table gives the
\* answer of the linear scan of isEmoji / isWideChar / isFullWidth /
\* isAmbiguousWidth for every code point.
C17_TablesSortedAndDisjoint ==
  /\ SortedDisjoint(EMOJI_RANGES) /\ SearchAgrees(EMOJI_RANGES, codePoint)
  /\ SortedDisjoint(WIDE_CHAR_RANGES) /\ SearchAgrees(WIDE_CHAR_RANGES, codePoint)
  /\ SortedDisjoint(FULL_WIDTH_RANGES) /\ SearchAgrees(FULL_WIDTH_RANGES, codePoint)
  /\ SortedDisjoint(AMBIGUOUS_WIDTH_RANGES)
  /\ SearchAgrees(AMBIGUOUS_WIDTH_RANGES, codePoint)

\* The classifier's scan found the code point in the last pair but one of the
\* ambiguous-width table (161 pairs), which the binary search reaches after
\* several halvings.
C17_Witness ==
  /\ pc = "categorizeCharacter"
  /\ char = FromCodePoint(codePoint)
  /\ category = "AMBIGUOUS_WIDTH"
  /\ codePoint = AMBIGUOUS_WIDTH_RANGES[Len(AMBIGUOUS_WIDTH_RANGES) - 1][1]
  /\ BinarySearch(AMBIGUOUS_WIDTH_RANGES, codePoint, 1, Len(AMBIGUOUS_WIDTH_RANGES))

(***************************************************************************)
(* SpecWidth: one call of getStringWidth on a string of A, space, tab,     *)
(* line feed and the ideograph U+4E16                                      *)
(***************************************************************************)
StringMaxLen == 3

StringUnits == {65, 32, 9, 10, 19990}

Strings(units, n) == UNION {[1..k -> units] : k \in 0..n}

StringWidthOptionSet ==
  {DefaultOptions,
   [DefaultOptions EXCEPT !.tabWidth = {2}],
   [DefaultOptions EXCEPT !.stripVTControlSequences = TRUE],
   [DefaultOptions EXCEPT !.stripVTControlSequences = TRUE, !.tabWidth = {2}],
   [DefaultOptions EXCEPT !.maxConsecutiveWhitespace = {0}],
   [DefaultOptions EXCEPT !.maxConsecutiveWhitespace = {2}],
   [DefaultOptions EXCEPT !.maxConsecutiveWhitespace = {2}, !.replaceTab = {<<32>>}],
   [DefaultOptions EXCEPT !.wideWidth = {3}, !.regularWidth = {2}]}

InitWidth ==
  /\ pc = "ready"
  /\ input \in Strings(StringUnits, StringMaxLen)
  /\ options \in StringWidthOptionSet
  /\ utilAvailable \in BOOLEAN
  /\ output = <<>>
  /\ width = -1
  /\ codePoint = 0
  /\ char = <<>>
  /\ category = "none"
  /\ codePoints = <<>>
  /\ result = <<>>
  /\ consecutiveWhitespace = 0
  /\ pushed = <<>>
  /\ counts = <<>>
  /\ IdleTruncate
  /\ IdleChrono
  /\ IdleUi

\* output holds sanitizedStr, the string handed to sw
GetStringWidth ==
  /\ pc = "ready"
  /\ pc' = "getStringWidth"
  /\ output' = sanitizedStr(input, options, utilAvailable)
  /\ width' = getStringWidth(input, options, utilAvailable)
  /\ UNCHANGED <<codePoint, char, options, category, stripVars, passVars,
               truncateVars, chronoVars, uiVars>>

NextWidth == GetStringWidth

SpecWidth == InitWidth /\ [][NextWidth]_vars

(***************************************************************************)
(* Claims about the width of a string (SpecWidth)                          *)
(***************************************************************************)
\* The number of units of str that are in the set S
CountIn(str, S) == Cardinality({i \in DOMAIN str : str[i] \in S})

\* C12: getStringWidth honours tabWidth: each tab of the input contributes
\* tabWidth columns (default 8), also when stripVTControlSequences or
\* maxConsecutiveWhitespace is configured and the string first goes through the
\* sanitizer.  Stated for the strings of tabs and letters, where nothing else
\* is there for the sanitizer to change.
C12_TabsCountTabWidth ==
  (pc = "getStringWidth" /\ Range(input) \subseteq {9, 65}
     /\ options.regularWidth = {}) =>
    width = CountIn(input, {9}) * OrElse(options.tabWidth, 8) + CountIn(input, {65})

StripMaxLen == 5

StripUnits == {27, 91, 49, 59, 109, 65}

StripOptions == [DefaultOptions EXCEPT !.stripVTControlSequences = TRUE]

InitStrip ==
  /\ pc = "ready"
  /\ input \in Strings(StripUnits, StripMaxLen)
  /\ utilAvailable \in BOOLEAN
  /\ options = StripOptions
  /\ output = <<>>
  /\ codePoint = 0
  /\ char = <<>>
  /\ category = "none"
  /\ width = -1
  /\ codePoints = <<>>
  /\ result = <<>>
  /\ consecutiveWhitespace = 0
  /\ pushed = <<>>
  /\ counts = <<>>
  /\ IdleTruncate
  /\ IdleChrono
  /\ IdleUi

StripVTControlSequences ==
  /\ pc = "ready"
  /\ pc' = "stripVTControlSequences"
  /\ output' = stripVTControlSequences(input, utilAvailable)
  /\ UNCHANGED <<options, charVars, stripVars, passVars,
               truncateVars, chronoVars, uiVars>>

SanitizeStripped ==
  /\ pc = "ready"
  /\ pc' = "sanitizeString"
  /\ output' = sanitizeString(input, options, utilAvailable)
  /\ UNCHANGED <<options, charVars, stripVars, passVars,
               truncateVars, chronoVars, uiVars>>

NextStrip == StripVTControlSequences \/ SanitizeStripped

SpecStrip == InitStrip /\ [][NextStrip]_vars

(***************************************************************************)
(* Claims about the escape-sequence stripper (SpecStrip)                   *)
(***************************************************************************)
StyleParam == (48..57) \cup {59}

\* The colour/style sequence ESC [ parameters m that starts at unit i: the index
\* after it, or 0
StyleEnd(str, i) ==
  IF str[i] # 27 \/ i = Len(str) THEN 0
  ELSE IF str[i + 1] # 91 THEN 0
  ELSE LET j == RunEnd(StyleParam, str, i + 2)
       IN IF j <= Len(str) /\ str[j] = 109 THEN j + 1 ELSE 0

RECURSIVE WithoutStyle(_, _)
WithoutStyle(str, i) ==
  IF i > Len(str) THEN <<>>
  ELSE IF StyleEnd(str, i) # 0 THEN WithoutStyle(str, StyleEnd(str, i))
  ELSE <<str[i]>> \o WithoutStyle(str, i + 1)

OnlyStyleEscapes(str) == \A i \in DOMAIN str : str[i] = 27 => StyleEnd(str, i) # 0

\* C8: stripVTControlSequences, and sanitizeString with stripVTControlSequences:
\* true, remove every colour/style sequence ESC [ parameters m, also one with
\* semicolon-separated parameters, and return the remaining characters unchanged
\* and in order (stated for inputs whose every ESC starts such a sequence).
C8_StyleSequencesRemoved ==
  (pc \in {"stripVTControlSequences", "sanitizeString"} /\ OnlyStyleEscapes(input))
    => output = WithoutStyle(input, 1)

\* The words of the pattern ESC [@-Z\-_] | ESC '[' [0-9?]* [ -/]* [@-~]
InPattern(w) ==
  /\ Len(w) >= 2
  /\ w[1] = 27
  /\ \/ Len(w) = 2 /\ w[2] \in (64..90) \cup (92..95)
     \/ /\ w[2] = 91
        /\ Len(w) >= 3
        /\ w[Len(w)] \in 64..126
        /\ \E a \in 2..(Len(w) - 1) :
             /\ \A k \in 3..a : w[k] \in (48..57) \cup {63}
             /\ \A k \in (a + 1)..(Len(w) - 1) : w[k] \in 32..47

RECURSIVE PatternRemoved(_, _)
\* str from unit i on with the matches of the pattern removed, left to right
PatternRemoved(str, i) ==
  IF i > Len(str) THEN <<>>
  ELSE LET ns == {n \in 2..(Len(str) - i + 1) : InPattern(SubSeq(str, i, i + n - 1))}
       IN IF ns = {} THEN <<str[i]>> \o PatternRemoved(str, i + 1)
          ELSE PatternRemoved(str, i + Max(ns))

PassMaxChars == 3

\* One character of each kind the pass distinguishes: A, space, tab, line feed,
\* BEL, zero width space, left-to-right mark, U+FFFD and U+1F600 (a surrogate
\* pair).
PassChars ==
  {<<65>>, <<32>>, TAB, LF, <<7>>, <<8203>>, <<8206>>, <<65533>>, <<55357, 56832>>}

\* Every combination of the whitespace limit, preserveZeroWidth,
\* preserveDirectional and replaceInvalidWith ("?"), and the whitespace limits
\* with preserveControlChars
DispatchOptionSet ==
  {[DefaultOptions EXCEPT !.maxConsecutiveWhitespace = n,
                          !.preserveZeroWidth = z,
                          !.preserveDirectional = d,
                          !.replaceInvalidWith = r] :
     n \in {{}, {1}, {2}}, z \in BOOLEAN, d \in BOOLEAN, r \in {{}, {<<63>>}}}
  \cup
  {[DefaultOptions EXCEPT !.maxConsecutiveWhitespace = n,
                          !.preserveControlChars = TRUE] :
     n \in {{}, {1}, {2}}}

\* One code point mapped to "X" under a whitespace limit of 1, with the preserve
\* flags all set or all clear
CustomOptionSet ==
  {[DefaultOptions EXCEPT !.customReplacements = CodePointAt0(c) :> <<88>>,
                          !.maxConsecutiveWhitespace = {1},
                          !.preserveControlChars = b,
                          !.preserveZeroWidth = b,
                          !.preserveDirectional = b] :
     c \in PassChars, b \in BOOLEAN}

\* maxLength with the default and with one-unit replacements for tab and newline
LengthOptionSet ==
  {[DefaultOptions EXCEPT !.maxLength = l, !.replaceTab = t, !.replaceNewLine = t] :
     l \in {{0}, {1}, {2}, {3}}, t \in {{}, {<<62>>}}}

PassOptionSet == DispatchOptionSet \cup CustomOptionSet \cup LengthOptionSet

Init ==
  /\ pc = "ready"
  /\ options \in PassOptionSet
  /\ input = <<>>
  /\ output = <<>>
  /\ codePoints = <<>>
  /\ result = <<>>
  /\ consecutiveWhitespace = 0
  /\ pushed = <<>>
  /\ counts = <<>>
  /\ IdleTruncate
  /\ IdleChrono
  /\ IdleUi
  /\ utilAvailable = FALSE
  /\ codePoint = 0
  /\ char = <<>>
  /\ category = "none"
  /\ width = -1

ProcessCharacter(c) ==
  /\ Len(codePoints) < PassMaxChars
  /\ LET r == processCharacter(c, CodePointAt0(c), result, consecutiveWhitespace, options)
     IN /\ result' = r.result
        /\ consecutiveWhitespace' = r.count
        /\ pushed' = Append(pushed, SubSeq(r.result, Len(result) + 1, Len(r.result)))
        /\ counts' = Append(counts, r.count)
  /\ codePoints' = Append(codePoints, c)
  /\ input' = input \o c
  /\ output' = Truncate(Join(result'), options)
  /\ pc' = "sanitizeString"
  /\ UNCHANGED <<options, utilAvailable, charVars,
               truncateVars, chronoVars, uiVars>>

Next == \E c \in PassChars : ProcessCharacter(c)

Spec == Init /\ [][Next]_vars

(***************************************************************************)
(* Claims about the per-character pass (Spec)                              *)
(***************************************************************************)
Units == DOMAIN codePoints

UnitCodePoint(i) == CodePointAt0(codePoints[i])

\* The category of each character the pass is given
PassCategory == [c \in PassChars |-> categorizeCharacter(CodePointAt0(c), c)]

UnitCategory(i) == PassCategory[codePoints[i]]

\* The unit's code point has a custom replacement
Replaced(i) == UnitCodePoint(i) \in DOMAIN options.customReplacements

\* The unit reaches the category dispatch with category cat
Dispatched(i, cat) == ~Replaced(i) /\ UnitCategory(i) = cat

CountBefore(i) == IF i = 1 THEN 0 ELSE counts[i - 1]

Limit == IF options.maxConsecutiveWhitespace = {} THEN 0
         ELSE CHOOSE n \in options.maxConsecutiveWhitespace : TRUE

\* The text the units of the set S put into the result, in order
RECURSIVE Emitted(_, _)
Emitted(S, i) ==
  IF i > Len(pushed) THEN <<>>
  ELSE (IF i \in S THEN Join(pushed[i]) ELSE <<>>) \o Emitted(S, i + 1)

WhitespaceLike(i) == UnitCategory(i) \in {"WHITESPACE", "TAB", "NEWLINE"}

\* C2: with maxConsecutiveWhitespace = N > 0, a run of consecutive input units of
\* category WHITESPACE, TAB or NEWLINE puts at most N substitutes into the output.
C2_RunsCapped ==
  (Limit > 0 /\ options.customReplacements = <<>>) =>
    \A a \in Units : \A b \in a..Len(codePoints) :
      (\A i \in a..b : WhitespaceLike(i))
        => Cardinality({i \in a..b : pushed[i] # <<>>}) <= Limit

\* Unit a starts a run of WHITESPACE units at the start of the string or right
\* after a PRINTABLE unit, and the run reaches unit i
InSpaceRun(a, i) ==
  /\ a <= i
  /\ a = 1 \/ UnitCategory(a - 1) = "PRINTABLE"
  /\ \A k \in a..i : Dispatched(k, "WHITESPACE")

\* C3: with maxConsecutiveWhitespace = N > 0, a run of k WHITESPACE characters
\* that starts the string or follows a PRINTABLE character contributes its first
\* min(k, N) characters to the output of sanitizeString, and all k with N = 0.
C3_FirstNOfARun ==
  /\ \A a \in Units : \A i \in Units :
       InSpaceRun(a, i) =>
         pushed[i] = IF Limit = 0 \/ i - a < Limit THEN <<codePoints[i]>> ELSE <<>>
  /\ options.maxLength = {} => output = Emitted(Units, 1)

\* Two spaces after a printable character under a limit of 1: the second one is
\* dropped.
C3_Witness ==
  /\ Limit = 1
  /\ Len(codePoints) = 3
  /\ InSpaceRun(2, 3)
  /\ pushed[3] = <<>>
  /\ output = <<65, 32>>

\* What a unit put into the result is its own character or nothing
PushedOwn(i, kept) == pushed[i] = IF kept THEN <<codePoints[i]>> ELSE <<>>

\* C4 as stated: a CONTROL unit is emitted if and only if preserveControlChars is
\* set, and the counter is 0 after it in both cases.
C4_ControlResetsCounter ==
  \A i \in Units :
    Dispatched(i, "CONTROL") =>
      PushedOwn(i, options.preserveControlChars) /\ counts[i] = 0

\* C4 as amended: a CONTROL unit is emitted if and only if preserveControlChars
\* is set; the counter is 0 after a preserved one and unchanged after a dropped
\* one.
C4_ControlDroppedKeepsCounter ==
  \A i \in Units :
    Dispatched(i, "CONTROL") =>
      /\ PushedOwn(i, options.preserveControlChars)
      /\ counts[i] = IF options.preserveControlChars THEN 0 ELSE CountBefore(i)

\* A control character was dropped after whitespace had been counted, and one
\* was preserved after whitespace.
C4_Witness ==
  \E i \in Units :
    /\ Dispatched(i, "CONTROL")
    /\ CountBefore(i) > 0
    /\ \/ ~options.preserveControlChars /\ pushed[i] = <<>> /\ counts[i] > 0
       \/ options.preserveControlChars /\ pushed[i] # <<>> /\ Limit > 0

\* The units that never touch the counter: ZERO_WIDTH, DIRECTIONAL_MARK and
\* INVALID units without a custom replacement
Neutral(i) ==
  ~Replaced(i) /\ UnitCategory(i) \in {"ZERO_WIDTH", "DIRECTIONAL_MARK", "INVALID"}

RECURSIVE Others(_)
\* The characters from unit i on that are not neutral
Others(i) ==
  IF i > Len(codePoints) THEN <<>>
  ELSE (IF Neutral(i) THEN <<>> ELSE <<codePoints[i]>>) \o Others(i + 1)

\* C5: a ZERO_WIDTH, DIRECTIONAL_MARK or INVALID unit leaves the counter as it
\* was, emitted or dropped, so what the other units put into the output is what
\* sanitizeString returns for the input without those units, whatever the limit
\* and preserveZeroWidth, preserveDirectional and replaceInvalidWith are.
C5_NeutralUnitsLeaveNoTrace ==
  /\ \A i \in Units :
       Neutral(i) =>
         /\ counts[i] = CountBefore(i)
         /\ pushed[i] \in {<<>>, <<codePoints[i]>>}
                            \cup {<<r>> : r \in options.replaceInvalidWith}
  /\ options.maxLength = {} =>
       /\ output = Emitted(Units, 1)
       /\ Emitted({i \in Units : ~Neutral(i)}, 1)
            = sanitizeString(Join(Others(1)), options, utilAvailable)

\* Under a limit of 1 a zero width space, an emitted left-to-right mark or an
\* emitted replacement of U+FFFD stood between two spaces, and the second space
\* was dropped all the same.
C5_Witness ==
  /\ Limit = 1
  /\ Len(codePoints) = 3
  /\ Dispatched(1, "WHITESPACE")
  /\ Neutral(2)
  /\ Dispatched(3, "WHITESPACE")
  /\ pushed[3] = <<>>
  /\ ( \/ UnitCategory(2) = "ZERO_WIDTH" /\ pushed[2] = <<>>
       \/ UnitCategory(2) = "DIRECTIONAL_MARK" /\ pushed[2] # <<>>
       \/ UnitCategory(2) = "INVALID" /\ pushed[2] = <<<<63>>>> )

\* C6 as stated: a unit whose code point customReplacements maps emits the mapped
\* string whatever its category, the preserve flags and the limit, and the
\* counter is incremented if its category is WHITESPACE and reset to 0 otherwise.
C6_CounterByCategory ==
  \A i \in Units :
    Replaced(i) =>
      /\ pushed[i] = <<options.customReplacements[UnitCodePoint(i)]>>
      /\ counts[i] = IF UnitCategory(i) = "WHITESPACE" THEN CountBefore(i) + 1 ELSE 0

\* C6 as amended: a unit whose code point customReplacements maps emits the
\* mapped string whatever its category, the preserve flags and the limit, and the
\* counter is incremented if the code point is in the whitespace table (which
\* holds tab, line feed and U+3000 too) and reset to 0 otherwise.
C6_CounterByWhitespaceTable ==
  \A i \in Units :
    Replaced(i) =>
      /\ pushed[i] = <<options.customReplacements[UnitCodePoint(i)]>>
      /\ counts[i] = IF UnitCodePoint(i) \in WHITESPACE_CODE_POINTS
                       THEN CountBefore(i) + 1 ELSE 0

\* A mapped tab (category TAB, in the whitespace table) was emitted although the
\* limit was reached, and incremented the counter.
C6_Witness ==
  \E i \in Units :
    /\ Replaced(i)
    /\ UnitCategory(i) = "TAB"
    /\ Limit > 0
    /\ CountBefore(i) >= Limit
    /\ pushed[i] = <<options.customReplacements[UnitCodePoint(i)]>>
    /\ counts[i] = CountBefore(i) + 1

\* C7: with maxLength = L > 0, sanitizeString returns the untruncated output cut
\* to its first L units (UTF-16 code units, nothing appended) when that output is
\* longer than L and unchanged otherwise, so the result is never longer than L;
\* with maxLength 0 or unset it returns the untruncated output.
C7_HardCut ==
  LET whole == Emitted(Units, 1)
      L == IF options.maxLength = {} THEN 0
           ELSE CHOOSE l \in options.maxLength : TRUE
  IN IF L > 0
       THEN /\ Len(output) <= L
            /\ Len(whole) > L =>
                 Len(output) = L /\ \A k \in 1..L : output[k] = whole[k]
            /\ Len(whole) <= L => output = whole
       ELSE output = whole

\* An output longer than maxLength was cut, in the middle of a surrogate pair.
C7_Witness ==
  /\ options.maxLength # {}
  /\ Len(output) \in options.maxLength
  /\ Len(Emitted(Units, 1)) > Len(output)
  /\ IsHighSurrogate(output[Len(output)])

(***************************************************************************)
(* visibleLength and truncate.  The file imports stripVTControlCharacters  *)
(* from node:util, the primitive modelled above.                           *)
(***************************************************************************)
visibleLength(text) == Len(utilStripVTControlCharacters(text))

RECURSIVE truncateFrom(_, _, _, _, _, _)
\* The loop of truncate over the characters chars, from the state (res,
\* visibleCount, inAnsi, ansiBuffer); budget is maxLength - suffix.length.
\* The value is result when the loop ends or breaks.
truncateFrom(chars, res, visibleCount, inAnsi, ansiBuffer, budget) ==
  IF chars = <<>> THEN res
  ELSE LET c == Head(chars)
       IN IF inAnsi
            THEN IF c = <<109>>
                   THEN truncateFrom(Tail(chars), res \o ansiBuffer \o c, visibleCount,
                                     FALSE, <<>>, budget)
                   ELSE truncateFrom(Tail(chars), res, visibleCount, TRUE,
                                     ansiBuffer \o c, budget)
          ELSE IF c = <<27>>
            THEN truncateFrom(Tail(chars), res, visibleCount, TRUE, c, budget)
          ELSE IF visibleCount < budget
            THEN truncateFrom(Tail(chars), res \o c, visibleCount + 1, FALSE,
                              ansiBuffer, budget)
          ELSE res

truncate(text, maxLen, suff) ==
  IF Len(utilStripVTControlCharacters(text)) <= maxLen
    THEN text
    ELSE truncateFrom(ArrayFrom(text), <<>>, 0, FALSE, <<>>, maxLen - Len(suff)) \o suff

(***************************************************************************)
(* SpecTruncate: one call of visibleLength or of truncate on a string of   *)
(* ESC [ m K A                                                             *)
(***************************************************************************)
TruncateMaxLen == 5

TruncateUnits == {27, 91, 109, 75, 65}

TruncateLengths == 0..2

\* No suffix, and a one-unit suffix
TruncateSuffixes == {<<>>, <<46>>}

InitTruncate ==
  /\ pc = "ready"
  /\ input \in Strings(TruncateUnits, TruncateMaxLen)
  /\ truncateLength \in TruncateLengths
  /\ suffix \in TruncateSuffixes
  /\ output = <<>>
  /\ width = -1
  /\ options = DefaultOptions
  /\ utilAvailable = TRUE
  /\ codePoint = 0
  /\ char = <<>>
  /\ category = "none"
  /\ codePoints = <<>>
  /\ result = <<>>
  /\ consecutiveWhitespace = 0
  /\ pushed = <<>>
  /\ counts = <<>>
  /\ IdleChrono
  /\ IdleUi

VisibleLength ==
  /\ pc = "ready"
  /\ pc' = "visibleLength"
  /\ width' = visibleLength(input)
  /\ UNCHANGED <<codePoint, char, options, category, output, stripVars, passVars,
                 truncateVars, chronoVars, uiVars>>

TruncateText ==
  /\ pc = "ready"
  /\ pc' = "truncate"
  /\ output' = truncate(input, truncateLength, suffix)
  /\ UNCHANGED <<options, charVars, stripVars, passVars, truncateVars, chronoVars, uiVars>>

NextTruncate == VisibleLength \/ TruncateText

SpecTruncate == InitTruncate /\ [][NextTruncate]_vars

(***************************************************************************)
(* Claims about truncate (SpecTruncate)                                    *)
(***************************************************************************)
\* Every ESC of the text begins a CSI sequence: ESC [ and a final byte from the
\* set finals
EscapesEndIn(text, finals) ==
  \A i \in DOMAIN text :
    text[i] = 27 => /\ i + 2 <= Len(text)
                    /\ text[i + 1] = 91
                    /\ text[i + 2] \in finals

\* The letters among the final bytes of a CSI sequence
CsiLetters == (65..90) \cup (97..122)

EndsWith(str, tail) ==
  Len(tail) <= Len(str) /\ SubSeq(str, Len(str) - Len(tail) + 1, Len(str)) = tail

RECURSIVE EscapesFrom(_, _)
\* The escape sequences of the string from unit i on, one after the other
EscapesFrom(str, i) ==
  IF i > Len(str) THEN <<>>
  ELSE LET e == AnsiMatchEnd(str, i)
       IN IF e # 0 THEN SubSeq(str, i, e - 1) \o EscapesFrom(str, e)
          ELSE EscapesFrom(str, i + 1)

\* C14: truncate(text, maxLength, suffix) returns text unchanged when its
\* visible length is at most maxLength; otherwise, for suffix.length <=
\* maxLength and any text with embedded CSI sequences of any final byte, the
\* result ends with suffix and its visible length is exactly maxLength.
C14_VisibleLengthIsMaxLength ==
  (pc = "truncate" /\ EscapesEndIn(input, CsiLetters) /\ Len(suffix) <= truncateLength) =>
    IF visibleLength(input) <= truncateLength
      THEN output = input
      ELSE EndsWith(output, suffix) /\ visibleLength(output) = truncateLength

\* C15: when truncate shortens a text, every escape sequence of the input is
\* in the result, verbatim and in order, those after the point where the
\* visible budget runs out included.  Stated for the texts whose escape
\* sequences all end in m.
C15_EverySequenceKept ==
  (pc = "truncate" /\ EscapesEndIn(input, {109}) /\ Len(suffix) <= truncateLength
     /\ visibleLength(input) > truncateLength) =>
    EscapesFrom(output, 1) = EscapesFrom(input, 1)

(***************************************************************************)
(* SpecSanitize: sanitizeString, and sanitizeString again on what it       *)
(* returned, with options that only keep or drop categories; the input is  *)
(* a string of A, tab, CR, LF, BEL, U+200B, U+200E, U+FFFD and the two     *)
(* halves of U+1F600                                                       *)
(***************************************************************************)
SanitizeMaxLen == 3

SanitizeUnits == {65, 9, 13, 10, 7, 8203, 8206, 65533, 55357, 56832}

PreserveOptionSet ==
  {[DefaultOptions EXCEPT !.preserveControlChars = a, !.preserveZeroWidth = b,
                          !.preserveDirectional = c] : a, b, c \in BOOLEAN}

InitSanitize ==
  /\ pc = "ready"
  /\ input \in Strings(SanitizeUnits, SanitizeMaxLen)
  /\ options \in PreserveOptionSet
  /\ utilAvailable = FALSE
  /\ output = <<>>
  /\ width = -1
  /\ codePoint = 0
  /\ char = <<>>
  /\ category = "none"
  /\ codePoints = <<>>
  /\ result = <<>>
  /\ consecutiveWhitespace = 0
  /\ pushed = <<>>
  /\ counts = <<>>
  /\ IdleTruncate
  /\ IdleChrono
  /\ IdleUi

SanitizeString ==
  /\ pc = "ready"
  /\ pc' = "sanitizeString"
  /\ output' = sanitizeString(input, options, utilAvailable)
  /\ UNCHANGED <<options, charVars, stripVars, passVars, truncateVars, chronoVars, uiVars>>

\* The caller passes the string it got back in again
SanitizeAgain ==
  /\ pc = "sanitizeString"
  /\ pc' = "sanitizeAgain"
  /\ input' = output
  /\ output' = sanitizeString(output, options, utilAvailable)
  /\ UNCHANGED <<options, charVars, utilAvailable, passVars, truncateVars, chronoVars, uiVars>>

NextSanitize == SanitizeString \/ SanitizeAgain

SpecSanitize == InitSanitize /\ [][NextSanitize]_vars

(***************************************************************************)
(* Claims about sanitizeString (SpecSanitize)                              *)
(***************************************************************************)
\* C16: for options that only drop or keep categories (any combination of
\* preserveControlChars, preserveZeroWidth, preserveDirectional, the rest at
\* their defaults), sanitizeString(sanitizeString(s, opts), opts) =
\* sanitizeString(s, opts) for every s.
C16_SecondPassStable ==
  pc = "sanitizeAgain" => output = input

\* The first pass turned a tab into four spaces and the second pass was given
\* them (no unit of the inputs is a space).
C16_Witness ==
  /\ pc = "sanitizeAgain"
  /\ options = DefaultOptions
  /\ input = <<65, 32, 32, 32, 32, 10>>
  /\ output = input

\* The line breaks of a string: its LF, and its CR that no LF follows
LineBreaks(str) ==
  Cardinality({i \in DOMAIN str :
                 \/ str[i] = 10
                 \/ str[i] = 13 /\ (i = Len(str) \/ str[i + 1] # 10)})

\* C18: with the default options a CR LF pair of the input is a single line
\* break in the output of sanitizeString.
C18_CRLFIsOneLineBreak ==
  (pc = "sanitizeString" /\ options = DefaultOptions) =>
    CountIn(output, {10}) = LineBreaks(input)

(***************************************************************************)
(* Chrono, the stopwatch.  An object is a record of its fields; the heap   *)
(* is the sequence of the objects constructed so far and a reference is an *)
(* index into it.  A value of type Partial<ChronoConfig>, and the params   *)
(* of copyWith, is a function from the names of the fields it gives to     *)
(* their values.  A method returns the heap it leaves, the reference it    *)
(* returns and the command it returns: {} for null, or the set of the one  *)
(* tick message the command resolves to.                                   *)
(***************************************************************************)
\* a ?? b for a field that a partial value gives or not
FieldOr(partial, field, dflt) ==
  IF field \in DOMAIN partial THEN partial[field] ELSE dflt

\* The constructor: the fields of new Chrono(id, config, formatter)
NewChrono(id, config) ==
  LET full == [tickInterval |-> FieldOr(config, "tickInterval", 100),
               precision |-> FieldOr(config, "precision", 1),
               formatStyle |-> FieldOr(config, "formatStyle", "compact"),
               autoStart |-> FieldOr(config, "autoStart", FALSE)]
  IN [id |-> id, sequence |-> 0, running |-> full.autoStart, elapsed |-> 0,
      config |-> full]

\* The message the command of createTickCommand resolves to
createTickCommand(this) ==
  {[type |-> "tick", id |-> this.id, sequence |-> this.sequence]}

\* The fields copyWith gives the copy
CopyFields(this, params) ==
  LET copy == NewChrono(this.id, FieldOr(params, "config", this.config))
  IN [copy EXCEPT !.running = FieldOr(params, "running", this.running),
                  !.elapsed = FieldOr(params, "elapsed", this.elapsed),
                  !.sequence = FieldOr(params, "sequence", this.sequence)]

\* copyWith assigning the fields to the object itself and returning it
copyWith_InPlace(heap, self, params) ==
  [heap |-> [heap EXCEPT ![self] = CopyFields(heap[self], params)], ref |-> self]

copyWith(heap, self, params) ==
  [heap |-> Append(heap, CopyFields(heap[self], params)), ref |-> Len(heap) + 1]

start(heap, self) ==
  IF heap[self].running
    THEN [heap |-> heap, ref |-> self, cmd |-> createTickCommand(heap[self])]
    ELSE LET updated == copyWith(heap, self, [running |-> TRUE])
         IN [heap |-> updated.heap, ref |-> updated.ref,
             cmd |-> createTickCommand(updated.heap[updated.ref])]

stop(heap, self) ==
  LET updated == copyWith(heap, self, [running |-> FALSE])
  IN [heap |-> updated.heap, ref |-> updated.ref, cmd |-> {}]

toggle(heap, self) ==
  IF heap[self].running THEN stop(heap, self) ELSE start(heap, self)

reset(heap, self) ==
  LET updated == copyWith(heap, self, [elapsed |-> 0, sequence |-> 0])
  IN [heap |-> updated.heap, ref |-> updated.ref, cmd |-> {}]

\* adjust adding the adjustment without the floor at zero
adjust_Unclamped(heap, self, adjustment) ==
  LET updated == copyWith(heap, self, [elapsed |-> heap[self].elapsed + adjustment])
  IN [heap |-> updated.heap, ref |-> updated.ref, cmd |-> {}]

adjust(heap, self, adjustment) ==
  LET newElapsed == Max({0, heap[self].elapsed + adjustment})
      updated == copyWith(heap, self, [elapsed |-> newElapsed])
  IN [heap |-> updated.heap, ref |-> updated.ref, cmd |-> {}]

\* { ...this.config, ...newConfig }
MergeConfig(config, newConfig) ==
  [f \in DOMAIN config |-> FieldOr(newConfig, f, config[f])]

configure(heap, self, newConfig) ==
  LET updated == copyWith(heap, self,
                          [config |-> MergeConfig(heap[self].config, newConfig)])
  IN [heap |-> updated.heap, ref |-> updated.ref, cmd |-> {}]

\* handleTick adding the interval and leaving the sequence number as it was
handleTick_SameSequence(heap, self, msg) ==
  IF ~heap[self].running \/ msg.sequence # heap[self].sequence
    THEN [heap |-> heap, ref |-> self, cmd |-> {}]
    ELSE LET updated ==
               copyWith(heap, self,
                        [elapsed |-> heap[self].elapsed + heap[self].config.tickInterval])
         IN [heap |-> updated.heap, ref |-> updated.ref,
             cmd |-> createTickCommand(updated.heap[updated.ref])]

handleTick(heap, self, msg) ==
  IF ~heap[self].running \/ msg.sequence # heap[self].sequence
    THEN [heap |-> heap, ref |-> self, cmd |-> {}]
    ELSE LET updated ==
               copyWith(heap, self,
                        [elapsed |-> heap[self].elapsed + heap[self].config.tickInterval,
                         sequence |-> heap[self].sequence + 1])
         IN [heap |-> updated.heap, ref |-> updated.ref,
             cmd |-> createTickCommand(updated.heap[updated.ref])]

handleToggle(heap, self, msg) ==
  LET updated == copyWith(heap, self, [running |-> msg.running])
  IN [heap |-> updated.heap, ref |-> updated.ref,
      cmd |-> IF msg.running THEN createTickCommand(updated.heap[updated.ref]) ELSE {}]

\* update handling the messages of any timer
update_AnyId(heap, self, msg) ==
  CASE msg.type = "tick" -> handleTick(heap, self, msg)
    [] msg.type = "toggle" -> handleToggle(heap, self, msg)
    [] msg.type = "reset" -> reset(heap, self)
    [] msg.type = "adjust" -> adjust(heap, self, msg.adjustment)
    [] msg.type = "configure" -> configure(heap, self, msg.config)
    [] OTHER -> [heap |-> heap, ref |-> self, cmd |-> {}]

update(heap, self, msg) ==
  IF msg.id # heap[self].id THEN [heap |-> heap, ref |-> self, cmd |-> {}]
  ELSE CASE msg.type = "tick" -> handleTick(heap, self, msg)
         [] msg.type = "toggle" -> handleToggle(heap, self, msg)
         [] msg.type = "reset" -> reset(heap, self)
         [] msg.type = "adjust" -> adjust(heap, self, msg.adjustment)
         [] msg.type = "configure" -> configure(heap, self, msg.config)
         [] OTHER -> [heap |-> heap, ref |-> self, cmd |-> {}]

(***************************************************************************)
(* Messages and arguments the Chrono methods are called with               *)
(***************************************************************************)
MaxInstances == 4
MaxSequence == 2
MaxElapsed == 200
MaxInflight == 2

ChronoId == "chrono-1"

Adjustments == {100, -100}

PartialConfigs == {[tickInterval |-> 50], [precision |-> 3, tickInterval |-> 100]}

TickMessages(ids) ==
  {[type |-> "tick", id |-> i, sequence |-> n] : i \in ids, n \in 0..MaxSequence}

\* The messages other than tick
RequestMessages(ids) ==
  {[type |-> "toggle", id |-> i, running |-> b] : i \in ids, b \in BOOLEAN}
    \cup {[type |-> "reset", id |-> i] : i \in ids}
    \cup {[type |-> "adjust", id |-> i, adjustment |-> a] : i \in ids, a \in Adjustments}
    \cup {[type |-> "configure", id |-> i, config |-> c] : i \in ids, c \in PartialConfigs}

\* The counters of the object stay within the bounds of the model
WithinBounds(this) == this.sequence <= MaxSequence /\ this.elapsed <= MaxElapsed

(***************************************************************************)
(* SpecChrono: Chrono.create, then method calls on any of the objects      *)
(* there are.  Every object ever returned stays on the heap.               *)
(***************************************************************************)
InitChrono ==
  /\ pc = "create"
  /\ \E autoStart \in BOOLEAN :
       LET ticker == NewChrono(ChronoId, [autoStart |-> autoStart])
       IN /\ instances = <<ticker>>
          /\ returned = [ref |-> 1,
                         cmd |-> IF ticker.config.autoStart
                                   THEN createTickCommand(ticker) ELSE {}]
  /\ receiver = 0
  /\ before = <<>>
  /\ inflight = <<>>
  /\ codePoint = 0
  /\ char = <<>>
  /\ options = DefaultOptions
  /\ category = "none"
  /\ width = -1
  /\ utilAvailable = FALSE
  /\ input = <<>>
  /\ output = <<>>
  /\ codePoints = <<>>
  /\ result = <<>>
  /\ consecutiveWhitespace = 0
  /\ pushed = <<>>
  /\ counts = <<>>
  /\ IdleTruncate
  /\ message = {}
  /\ IdleUi

\* The method named method, called on the object self with the messages of
\* msg (none, or the one update is given), returned r
Call(method, self, msg, r) ==
  /\ Len(instances) < MaxInstances
  /\ WithinBounds(r.heap[r.ref])
  /\ pc' = method
  /\ receiver' = self
  /\ before' = <<instances[self]>>
  /\ instances' = r.heap
  /\ returned' = [ref |-> r.ref, cmd |-> r.cmd]
  /\ message' = msg
  /\ UNCHANGED <<options, utilAvailable, input, output, inflight, charVars, passVars,
                 truncateVars, uiVars>>

Start ==
  \E self \in DOMAIN instances : Call("start", self, {}, start(instances, self))

Stop ==
  \E self \in DOMAIN instances : Call("stop", self, {}, stop(instances, self))

Toggle ==
  \E self \in DOMAIN instances : Call("toggle", self, {}, toggle(instances, self))

Reset ==
  \E self \in DOMAIN instances : Call("reset", self, {}, reset(instances, self))

Adjust ==
  \E self \in DOMAIN instances, adjustment \in Adjustments :
    Call("adjust", self, {}, adjust(instances, self, adjustment))

Configure ==
  \E self \in DOMAIN instances, newConfig \in PartialConfigs :
    Call("configure", self, {}, configure(instances, self, newConfig))

Update ==
  \E self \in DOMAIN instances,
     msg \in TickMessages({ChronoId, "chrono-2"}) \cup RequestMessages({ChronoId}) :
    Call("update", self, {msg}, update(instances, self, msg))

NextChrono == Start \/ Stop \/ Toggle \/ Reset \/ Adjust \/ Configure \/ Update

SpecChrono == InitChrono /\ [][NextChrono]_vars

RECURSIVE SumUpTo(_, _)
SumUpTo(bag, n) == IF n < 0 THEN 0 ELSE bag[n] + SumUpTo(bag, n - 1)

\* The number of commands in flight
Outstanding(bag) == SumUpTo(bag, MaxSequence)

\* The program runs the command update returned, if it returned one
RunCommand(bag, cmd) ==
  IF cmd = {} THEN bag
  ELSE LET msg == CHOOSE m \in cmd : TRUE
       IN [bag EXCEPT ![msg.sequence] = @ + 1]

InitLive ==
  /\ pc = "create"
  /\ \E autoStart \in BOOLEAN :
       LET ticker == NewChrono(ChronoId, [autoStart |-> autoStart])
           command == IF ticker.config.autoStart THEN createTickCommand(ticker) ELSE {}
       IN /\ instances = <<ticker>>
          /\ returned = [ref |-> 1, cmd |-> command]
          /\ inflight = RunCommand([n \in 0..MaxSequence |-> 0], command)
  /\ receiver = 0
  /\ before = <<>>
  /\ codePoint = 0
  /\ char = <<>>
  /\ options = DefaultOptions
  /\ category = "none"
  /\ width = -1
  /\ utilAvailable = FALSE
  /\ input = <<>>
  /\ output = <<>>
  /\ codePoints = <<>>
  /\ result = <<>>
  /\ consecutiveWhitespace = 0
  /\ pushed = <<>>
  /\ counts = <<>>
  /\ IdleTruncate
  /\ message = {}
  /\ IdleUi

\* The program hands msg to update of the timer it holds, keeps the timer
\* returned and runs the command returned; bag is what was in flight besides
\* msg.  A message of the program leaves room for one more tick below
\* MaxElapsed, and runs no command beyond MaxInflight.
Feed(msg, bag) ==
  LET r == update(instances, 1, msg)
      that == r.heap[r.ref]
  IN /\ WithinBounds(that)
     /\ msg.type # "tick" =>
          /\ that.elapsed + that.config.tickInterval <= MaxElapsed
          /\ r.cmd # {} => Outstanding(bag) < MaxInflight
     /\ pc' = msg.type
     /\ receiver' = 1
     /\ before' = <<instances[1]>>
     /\ instances' = <<that>>
     /\ returned' = [ref |-> 1, cmd |-> r.cmd]
     /\ inflight' = RunCommand(bag, r.cmd)
     /\ message' = {msg}
     /\ UNCHANGED <<options, utilAvailable, input, output, charVars, passVars,
                    truncateVars, uiVars>>

SendToggle ==
  \E running \in BOOLEAN :
    Feed([type |-> "toggle", id |-> ChronoId, running |-> running], inflight)

SendReset == Feed([type |-> "reset", id |-> ChronoId], inflight)

SendAdjust ==
  \E adjustment \in Adjustments :
    Feed([type |-> "adjust", id |-> ChronoId, adjustment |-> adjustment], inflight)

SendConfigure ==
  \E config \in PartialConfigs :
    Feed([type |-> "configure", id |-> ChronoId, config |-> config], inflight)

\* The timeout of a command in flight fires: its tick message goes to update
ResolveTick(n) ==
  /\ inflight[n] > 0
  /\ Feed([type |-> "tick", id |-> ChronoId, sequence |-> n],
          [inflight EXCEPT ![n] = @ - 1])

DeliverTick == \E n \in 0..MaxSequence : ResolveTick(n)

NextLive == SendToggle \/ SendReset \/ SendAdjust \/ SendConfigure \/ DeliverTick

\* Every command run resolves and its message is fed back; the program's own
\* messages come when they come.
SpecChronoLive ==
  InitLive /\ [][NextLive]_vars /\ \A n \in 0..MaxSequence : WF_vars(ResolveTick(n))

(***************************************************************************)
(* Claims about the running timer (SpecChronoLive)                         *)
(***************************************************************************)
\* A reset message was just processed by a running timer with a tick command
\* outstanding
ResetWhileTicking ==
  /\ pc = "reset"
  /\ instances[1].running
  /\ Outstanding(inflight) > 0

\* A tick was just accepted
TickAccepted ==
  /\ pc = "tick"
  /\ returned.cmd # {}
  /\ instances[1].elapsed > 0

\* C20: resetting a Chrono does not change its running state: if a running
\* timer whose tick command is outstanding processes a reset message then,
\* every command returned by update being executed and its message fed back,
\* a tick is eventually accepted again and elapsed becomes positive (unless
\* the program sends the timer another toggle, adjust or configure message
\* first).
C20_TicksAgainAfterReset ==
  ResetWhileTicking ~> (TickAccepted \/ pc \in {"toggle", "adjust", "configure"})

(***************************************************************************)
(* More claims about the Chrono methods (SpecChrono)                       *)
(***************************************************************************)
\* C21: elapsed time never goes below zero: after any sequence of start,
\* stop, toggle, reset, adjust (by a positive or a negative amount),
\* configure and update on a Chrono whose tickInterval is non-negative,
\* elapsed >= 0.
C21_ElapsedNeverNegative ==
  \A i \in DOMAIN instances : instances[i].elapsed >= 0

\* adjust took more than the timer had: a timer that had ticked once at an
\* interval of 50 was adjusted by -100 and shows zero.
C21_Witness ==
  /\ pc = "adjust"
  /\ before[1].elapsed = 50
  /\ before[1].sequence = 1
  /\ instances[returned.ref].elapsed = 0

\* The tick message the last call of update was given, if it was given one
TickGiven == {m \in message : m.type = "tick"}

\* C26: update changes the timer on a tick message only if the message id is
\* the timer's id, the timer is running and the message sequence is the
\* timer's sequence; then elapsed grows by exactly tickInterval, the sequence
\* by 1, and a tick command carrying the new sequence is returned.  In every
\* other case (foreign id, stopped timer, stale sequence) the same state is
\* returned with a null command.
C26_TickAcceptedOnlyInStep ==
  (pc = "update" /\ TickGiven # {}) =>
    \A msg \in TickGiven :
      LET this == before[1]
          that == instances[returned.ref]
      IN IF msg.id = this.id /\ this.running /\ msg.sequence = this.sequence
           THEN /\ that = [this EXCEPT !.elapsed = @ + this.config.tickInterval,
                                       !.sequence = @ + 1]
                /\ returned.cmd = {[type |-> "tick", id |-> this.id,
                                    sequence |-> this.sequence + 1]}
           ELSE /\ returned.ref = receiver
                /\ that = this
                /\ returned.cmd = {}

\* A running timer at sequence 1 accepted the tick of sequence 1
C26_Witness ==
  /\ pc = "update"
  /\ message = {[type |-> "tick", id |-> ChronoId, sequence |-> 1]}
  /\ before[1].running
  /\ before[1].sequence = 1
  /\ instances[returned.ref].sequence = 2
  /\ instances[returned.ref].elapsed = before[1].elapsed + before[1].config.tickInterval
  /\ returned.cmd # {}

(***************************************************************************)
(* SpecChronoTicks: a Chrono that is never adjusted and never configured:  *)
(* start, stop, toggle and reset are called, and update is given tick,     *)
(* toggle and reset messages, on any of the objects there are, in any      *)
(* order and any number of times.                                          *)
(***************************************************************************)
Deliver ==
  \E self \in DOMAIN instances,
     msg \in TickMessages({ChronoId, "chrono-2"})
               \cup {m \in RequestMessages({ChronoId}) : m.type \in {"toggle", "reset"}} :
    Call("update", self, {msg}, update(instances, self, msg))

NextChronoTicks == Start \/ Stop \/ Toggle \/ Reset \/ Deliver

SpecChronoTicks == InitChrono /\ [][NextChronoTicks]_vars

\* C27: ticks are never counted twice: in a run without adjust or configure,
\* however often start or toggle is invoked and whatever duplicate or stale
\* tick messages are delivered in any order, elapsed = sequence x tickInterval
\* in every reachable state, and the timer that an accepted tick returns does
\* not accept a tick message of that sequence number again.
C27_ElapsedIsSequenceTimesInterval ==
  /\ \A i \in DOMAIN instances :
       instances[i].elapsed = instances[i].sequence * instances[i].config.tickInterval
  /\ (pc = "update" /\ returned.cmd # {}) =>
       \A msg \in TickGiven :
         LET again == update(instances, returned.ref, msg)
         IN again.ref = returned.ref /\ again.cmd = {}

\* After an earlier call, a tick of the sequence number 0 was accepted: the
\* timer returned is at sequence 1 and has counted one interval
C27_Witness ==
  /\ pc = "update"
  /\ message = {[type |-> "tick", id |-> ChronoId, sequence |-> 0]}
  /\ returned.cmd # {}
  /\ Len(instances) >= 2
  /\ instances[returned.ref].sequence = 1
  /\ instances[returned.ref].elapsed = 100

(***************************************************************************)
(* Spinner, the animation of frames driven by frameUpdate events.  The     *)
(* object is a record of its fields and is changed in place; an event is a *)
(* record of the fields its type has; the command processEvent returns is  *)
(* {} for null or the set of the one name of the function that made it.    *)
(***************************************************************************)
\* No call of the rune utilities or of truncate
IdleRune ==
  /\ codePoint = 0
  /\ char = <<>>
  /\ options = DefaultOptions
  /\ category = "none"
  /\ width = -1
  /\ utilAvailable = FALSE
  /\ input = <<>>
  /\ output = <<>>
  /\ codePoints = <<>>
  /\ result = <<>>
  /\ consecutiveWhitespace = 0
  /\ pushed = <<>>
  /\ counts = <<>>
  /\ IdleTruncate

\* Spinners.Line and Spinners.Globe
SpinnersLine ==
  [animationFrames |-> <<<<124>>, <<47>>, <<45>>, <<92>>>>, frameDurationMs |-> 100]

SpinnersGlobe ==
  [animationFrames |-> <<<<55356, 57101>>, <<55356, 57102>>, <<55356, 57103>>>>,
   frameDurationMs |-> 250]

\* The constructor; instanceId is what ++spinnerInstanceCounter gave
NewSpinner(config, instanceId) ==
  [currentFrameIndex |-> 0, sequenceNumber |-> 0, instanceId |-> instanceId,
   config |-> config]

isValidEvent(this, event) ==
  event.instanceId = this.instanceId /\ event.sequenceId = this.sequenceNumber

\* advanceAnimation stepping the index without the wrap
advanceAnimation_NoWrap(this) ==
  [this EXCEPT !.currentFrameIndex = this.currentFrameIndex + 1,
               !.sequenceNumber = this.sequenceNumber + 1]

advanceAnimation(this) ==
  [this EXCEPT !.currentFrameIndex =
                 (this.currentFrameIndex + 1) % Len(this.config.animationFrames),
               !.sequenceNumber = this.sequenceNumber + 1]

\* The object as processEvent leaves it, and the command it returns
processEvent(this, event) ==
  IF event.type = "frameUpdate" /\ isValidEvent(this, event)
    THEN [spinner |-> advanceAnimation(this), cmd |-> {"scheduleNextFrame"}]
    ELSE [spinner |-> this, cmd |-> {}]

MaxFrameSequence == 6

SpinnerEvents ==
  {[type |-> "frameUpdate", sequenceId |-> n, instanceId |-> i] :
     n \in 0..MaxFrameSequence, i \in {1, 2}}
    \cup {[type |-> "syncRequest"]}

(***************************************************************************)
(* SpecSpinner: new Spinner(config), then processEvent with any event      *)
(***************************************************************************)
InitSpinner ==
  /\ pc = "new Spinner"
  /\ \E config \in {SpinnersLine, SpinnersGlobe} : spinner = NewSpinner(config, 1)
  /\ IdleRune
  /\ IdleApp
  /\ IdleChrono
  /\ IdleWhirl
  /\ IdleCursor
  /\ IdleWink

ProcessEvent ==
  \E event \in SpinnerEvents :
    LET r == processEvent(spinner, event)
    IN /\ r.spinner.sequenceNumber <= MaxFrameSequence
       /\ pc' = "processEvent"
       /\ spinner' = r.spinner
       /\ receiver' = 1
       /\ before' = <<spinner>>
       /\ returned' = [ref |-> 1, cmd |-> r.cmd]
       /\ message' = {event}
       /\ UNCHANGED <<options, utilAvailable, input, output, instances, inflight,
                      charVars, passVars, truncateVars, appVars, whirlVars, cursorVars, winkVars>>

NextSpinner == ProcessEvent

SpecSpinner == InitSpinner /\ [][NextSpinner]_vars

\* C30: processEvent advances the animation only on a frameUpdate event whose
\* instanceId is the spinner's and whose sequenceId is its current
\* sequenceNumber; any other event leaves the state unchanged and returns a
\* null command.  For a non-empty frame list currentFrameIndex =
\* sequenceNumber mod animationFrames.length in every reachable state, so the
\* index is always a valid frame index.
C30_AdvancesOnlyInStep ==
  /\ spinner.currentFrameIndex =
       spinner.sequenceNumber % Len(spinner.config.animationFrames)
  /\ spinner.currentFrameIndex + 1 \in DOMAIN spinner.config.animationFrames
  /\ pc = "processEvent" =>
       \A event \in message :
         LET this == before[1]
         IN IF /\ event.type = "frameUpdate"
               /\ event.instanceId = this.instanceId
               /\ event.sequenceId = this.sequenceNumber
              THEN /\ spinner.sequenceNumber = this.sequenceNumber + 1
                   /\ spinner.currentFrameIndex # this.currentFrameIndex
                   /\ spinner.config = this.config
                   /\ spinner.instanceId = this.instanceId
                   /\ returned.cmd # {}
              ELSE spinner = this /\ returned.cmd = {}

\* The fourth frameUpdate of a Line spinner was accepted: the index is back at
\* the first of the four frames
C30_Witness ==
  /\ pc = "processEvent"
  /\ spinner.config = SpinnersLine
  /\ before[1].currentFrameIndex = 3
  /\ message = {[type |-> "frameUpdate", sequenceId |-> 3, instanceId |-> 1]}
  /\ spinner.sequenceNumber = 4
  /\ spinner.currentFrameIndex = 0

(***************************************************************************)
(* Whirl, the terminal spinner driven by timers.  The object is a record   *)
(* of its fields, named without the leading underscore: id holds {} for    *)
(* null or the handle of a timer.  A timer is a record of its handle and   *)
(* its kind, "timeout" or "interval"; setTimeout and setInterval return a  *)
(* handle no timer had before.  A method works on a record w of the        *)
(* object, the timers there are, the handles used so far, whether a frame  *)
(* was written and the symbol of the last line stopAndPersist wrote.       *)
(***************************************************************************)
\* spinnerStyles.line and spinnerStyles.pulse
spinnerStyles ==
  [line |-> [frames |-> <<<<124>>, <<47>>, <<45>>, <<92>>>>, interval |-> 100],
   pulse |-> [frames |-> <<<<9608>>, <<9619>>, <<9618>>, <<9617>>, <<9618>>, <<9619>>>>,
              interval |-> 100]]

symbols == [success |-> 10004, error |-> 10006, warning |-> 9888, info |-> 8505]

\* The constructor, for options that give spinner, isEnabled and isSilent
NewWhirl(opts) ==
  [text |-> FieldOr(opts, "text", <<>>),
   spinner |-> spinnerStyles[opts.spinner],
   interval |-> spinnerStyles[opts.spinner].interval,
   isEnabled |-> opts.isEnabled,
   isSilent |-> opts.isSilent,
   id |-> {},
   frameIndex |-> 0,
   isSpinning |-> FALSE]

Handles(ts) == {t.handle : t \in ts}

\* The state a call begins in
Entering(this, ts, symbol) ==
  [this |-> this, timers |-> ts, used |-> Handles(ts) \cup this.id, rendered |-> FALSE,
   persisted |-> symbol]

\* this._id = setTimeout(...) or setInterval(...)
SetTimer(w, kind) ==
  LET h == CHOOSE n \in 1..(Cardinality(w.used) + 1) : n \notin w.used
  IN [w EXCEPT !.this.id = {h},
               !.timers = @ \cup {[handle |-> h, kind |-> kind]},
               !.used = @ \cup {h}]

\* clearInterval(this._id)
ClearTimer(w) == [w EXCEPT !.timers = {t \in @ : t.handle \notin w.this.id}]

\* _frame: the frame at the index is returned and the index steps on
Whirl_frame(w) ==
  [w EXCEPT !.this.frameIndex = (@ + 1) % Len(w.this.spinner.frames)]

\* _render
Whirl_render(w) ==
  IF ~w.this.isEnabled \/ w.this.isSilent THEN w
  ELSE [Whirl_frame(w) EXCEPT !.rendered = TRUE]

\* start(text): text is {} when the argument is left out
Whirl_start(w, text) ==
  LET named == IF text # {} /\ text # {<<>>}
                 THEN [w EXCEPT !.this.text = CHOOSE t \in text : TRUE] ELSE w
  IN IF named.this.isSpinning THEN named
     ELSE SetTimer(Whirl_render([named EXCEPT !.this.isSpinning = TRUE,
                                              !.this.frameIndex = 0]),
                   "timeout")

Whirl_stop(w) ==
  IF ~w.this.isSpinning THEN w
  ELSE LET cleared == IF w.this.id # {} THEN [ClearTimer(w) EXCEPT !.this.id = {}] ELSE w
       IN [cleared EXCEPT !.this.isSpinning = FALSE]

Whirl_stopAndPersist(w, symbol) ==
  LET stopped == Whirl_stop(w)
  IN IF ~stopped.this.isSilent THEN [stopped EXCEPT !.persisted = {symbol}] ELSE stopped

Whirl_succeed(w) == Whirl_stopAndPersist(w, symbols.success)

Whirl_fail(w) == Whirl_stopAndPersist(w, symbols.error)

Whirl_warn(w) == Whirl_stopAndPersist(w, symbols.warning)

Whirl_info(w) == Whirl_stopAndPersist(w, symbols.info)

\* The public render()
Whirl_renderNow(w) == IF w.this.isSpinning THEN Whirl_render(w) ELSE w

\* set text(value)
Whirl_setText(w, value) ==
  LET named == [w EXCEPT !.this.text = value]
  IN IF named.this.isSpinning THEN Whirl_render(named) ELSE named

\* set spinner(value) leaving the timer there is running
Whirl_setSpinner_KeepsTimer(w, value) ==
  LET styled == [w EXCEPT !.this.spinner = spinnerStyles[value],
                          !.this.interval = spinnerStyles[value].interval]
  IN IF ~styled.this.isSpinning THEN styled
     ELSE SetTimer(Whirl_render([styled EXCEPT !.this.frameIndex = 0]), "interval")

\* set spinner(value), for the name of a style
Whirl_setSpinner(w, value) ==
  LET styled == [w EXCEPT !.this.spinner = spinnerStyles[value],
                          !.this.interval = spinnerStyles[value].interval]
  IN IF ~styled.this.isSpinning THEN styled
     ELSE LET cleared == IF styled.this.id # {} THEN ClearTimer(styled) ELSE styled
          IN SetTimer(Whirl_render([cleared EXCEPT !.this.frameIndex = 0]), "interval")

\* The callback of the timer: the timeout of start renders and sets the
\* interval, the interval renders
TimerFires(w, timer) ==
  IF timer.kind = "timeout"
    THEN SetTimer(Whirl_render([w EXCEPT !.timers = @ \ {timer}]), "interval")
    ELSE Whirl_render(w)

WhirlTexts == {<<76>>, <<>>}

(***************************************************************************)
(* SpecWhirl: new Whirl(options), then any call of its methods and any     *)
(* timer firing.  before holds the object and the timers of before the     *)
(* call.                                                                   *)
(***************************************************************************)
InitWhirl ==
  /\ pc = "new Whirl"
  /\ \E isEnabled \in BOOLEAN, isSilent \in BOOLEAN :
       whirl = NewWhirl([spinner |-> "line", isEnabled |-> isEnabled,
                         isSilent |-> isSilent])
  /\ timers = {}
  /\ rendered = FALSE
  /\ persisted = {}
  /\ promise = <<>>
  /\ spinner = <<>>
  /\ IdleCursor
  /\ IdleWink
  /\ IdleRune
  /\ IdleApp
  /\ IdleChrono

\* The method or callback named method left w
WhirlCall(method, w) ==
  /\ pc' = method
  /\ before' = <<whirl, timers>>
  /\ whirl' = w.this
  /\ timers' = w.timers
  /\ rendered' = w.rendered
  /\ persisted' = w.persisted
  /\ UNCHANGED <<promise, options, utilAvailable, input, output, instances, receiver, returned,
                 inflight, message, spinner, charVars, passVars, truncateVars, appVars, cursorVars,
                 winkVars>>

WhirlStart ==
  \E text \in {{}} \cup {{t} : t \in WhirlTexts} :
    WhirlCall("start", Whirl_start(Entering(whirl, timers, persisted), text))

WhirlStop == WhirlCall("stop", Whirl_stop(Entering(whirl, timers, persisted)))

Succeed == WhirlCall("succeed", Whirl_succeed(Entering(whirl, timers, persisted)))

Fail == WhirlCall("fail", Whirl_fail(Entering(whirl, timers, persisted)))

Warn == WhirlCall("warn", Whirl_warn(Entering(whirl, timers, persisted)))

Info == WhirlCall("info", Whirl_info(Entering(whirl, timers, persisted)))

StopAndPersist ==
  WhirlCall("stopAndPersist", Whirl_stopAndPersist(Entering(whirl, timers, persisted), 32))

Render == WhirlCall("render", Whirl_renderNow(Entering(whirl, timers, persisted)))

Frame == WhirlCall("frame", Whirl_frame(Entering(whirl, timers, persisted)))

SetText ==
  \E value \in WhirlTexts :
    WhirlCall("set text", Whirl_setText(Entering(whirl, timers, persisted), value))

SetSpinner ==
  \E value \in DOMAIN spinnerStyles :
    WhirlCall("set spinner", Whirl_setSpinner(Entering(whirl, timers, persisted), value))

Fire ==
  \E timer \in timers :
    WhirlCall(timer.kind, TimerFires(Entering(whirl, timers, persisted), timer))

NextWhirl ==
  \/ WhirlStart \/ WhirlStop \/ Succeed \/ Fail \/ Warn \/ Info \/ StopAndPersist
  \/ Render \/ Frame \/ SetText \/ SetSpinner \/ Fire

SpecWhirl == InitWhirl /\ [][NextWhirl]_vars

\* C24: a Whirl spinner has at most one timer scheduled at any time, and one
\* is scheduled only while isSpinning is true: start() while spinning has no
\* effect on the timers or the frame index, changing the spinner style while
\* spinning replaces the timer, and after stop(), succeed(), fail(), warn(),
\* info() or stopAndPersist() no timer remains and no further frame is
\* rendered.
C24_AtMostOneTimer ==
  /\ Cardinality(timers) <= 1
  /\ Handles(timers) = whirl.id
  /\ timers # {} <=> whirl.isSpinning
  /\ rendered => whirl.isSpinning
  /\ (pc = "start" /\ before[1].isSpinning) =>
       timers = before[2] /\ whirl.frameIndex = before[1].frameIndex
  /\ (pc = "set spinner" /\ before[1].isSpinning) =>
       /\ timers \cap before[2] = {}
       /\ Handles(timers) \cap Handles(before[2]) = {}
       /\ \A t \in timers : t.kind = "interval"
  /\ pc \in {"stop", "succeed", "fail", "warn", "info", "stopAndPersist"} =>
       timers = {} /\ ~whirl.isSpinning

\* The style was changed before the timeout of start had fired: the timeout
\* is gone, the one timer there is is a new interval, and the first frame of
\* the new style was written
C24_Witness ==
  /\ pc = "set spinner"
  /\ before[1].isSpinning
  /\ before[2] = {[handle |-> 1, kind |-> "timeout"]}
  /\ timers = {[handle |-> 2, kind |-> "interval"]}
  /\ whirl.spinner = spinnerStyles.pulse
  /\ rendered
  /\ whirl.frameIndex = 1

(***************************************************************************)
(* whirlPromise.  The call is a record: whether the action is a promise or *)
(* a function of the spinner, what the action does (its promise resolves,  *)
(* its promise rejects, or the function throws before it returns one), the *)
(* state of the promise whirlPromise returned, the value that promise was  *)
(* fulfilled or rejected with, and the method the spinner was stopped by.  *)
(* The successText and failText callbacks return: they choose the text of  *)
(* the line written, which is no part of the state.                        *)
(***************************************************************************)
ActionResult == "result"

ActionError == "error"

ActionOutcomes(action) ==
  IF action = "function" THEN {"resolves", "rejects", "throws"} ELSE {"resolves", "rejects"}

\* The catch block stopping the spinner and returning instead of throwing
whirlPromise_Swallows(w, p) ==
  IF p.outcome = "resolves"
    THEN [w |-> Whirl_succeed(w),
          promise |-> [p EXCEPT !.state = "fulfilled", !.value = {ActionResult},
                                !.via = {"succeed"}]]
    ELSE [w |-> Whirl_fail(w),
          promise |-> [p EXCEPT !.state = "fulfilled", !.value = {}, !.via = {"fail"}]]

\* whirlPromise from the await on: the try block after the action's promise
\* resolved, the catch block after it rejected or the function threw
whirlPromise(w, p) ==
  IF p.outcome = "resolves"
    THEN [w |-> Whirl_succeed(w),
          promise |-> [p EXCEPT !.state = "fulfilled", !.value = {ActionResult},
                                !.via = {"succeed"}]]
    ELSE [w |-> Whirl_fail(w),
          promise |-> [p EXCEPT !.state = "rejected", !.value = {ActionError},
                                !.via = {"fail"}]]

(***************************************************************************)
(* SpecWhirlPromise: whirlPromise(action, options) was called and has      *)
(* started its spinner; timers fire and a function action sets the text    *)
(* while the action's promise is pending; then the action settles.         *)
(***************************************************************************)
InitWhirlPromise ==
  /\ pc = "whirlPromise"
  /\ \E isEnabled \in BOOLEAN, isSilent \in BOOLEAN, text \in WhirlTexts :
       LET started == Whirl_start(Entering(NewWhirl([spinner |-> "line", text |-> text,
                                                      isEnabled |-> isEnabled,
                                                      isSilent |-> isSilent]),
                                            {}, {}),
                                   {})
       IN /\ whirl = started.this
          /\ timers = started.timers
          /\ rendered = started.rendered
          /\ persisted = started.persisted
  /\ \E action \in {"promise", "function"} :
       \E outcome \in ActionOutcomes(action) :
         promise = [action |-> action, outcome |-> outcome, state |-> "pending",
                    value |-> {}, via |-> {}]
  /\ spinner = <<>>
  /\ IdleCursor
  /\ IdleWink
  /\ IdleRune
  /\ IdleApp
  /\ IdleChrono

\* A step of whirlPromise or of its spinner left w and the call p
PromiseStep(step, w, p) ==
  /\ promise.state = "pending"
  /\ pc' = step
  /\ before' = <<whirl, timers>>
  /\ whirl' = w.this
  /\ timers' = w.timers
  /\ rendered' = w.rendered
  /\ persisted' = w.persisted
  /\ promise' = p
  /\ UNCHANGED <<options, utilAvailable, input, output, instances, receiver, returned,
                 inflight, message, spinner, charVars, passVars, truncateVars, appVars, cursorVars,
                 winkVars>>

\* A timer of the spinner fires while the action is pending
FirePending ==
  \E timer \in timers :
    /\ promise.outcome # "throws"
    /\ PromiseStep(timer.kind, TimerFires(Entering(whirl, timers, persisted), timer),
                   promise)

\* The function sets spinner.text while it works
ActionSetsText ==
  \E value \in WhirlTexts :
    /\ promise.action = "function"
    /\ promise.outcome # "throws"
    /\ PromiseStep("set text", Whirl_setText(Entering(whirl, timers, persisted), value),
                   promise)

Settle(outcome) ==
  /\ promise.outcome = outcome
  /\ LET r == whirlPromise(Entering(whirl, timers, persisted), promise)
     IN PromiseStep(outcome, r.w, r.promise)

Resolves == Settle("resolves")

Rejects == Settle("rejects")

\* The function throws when it is called, before any timer can fire
Throws == pc = "whirlPromise" /\ Settle("throws")

NextWhirlPromise == FirePending \/ ActionSetsText \/ Resolves \/ Rejects \/ Throws

SpecWhirlPromise == InitWhirlPromise /\ [][NextWhirlPromise]_vars

NewCursor(opts) ==
  [blinkSpeed |-> FieldOr(opts, "blinkSpeed", 530),
   char |-> FieldOr(opts, "char", <<32>>),
   style |-> FieldOr(opts, "style", "reset.inverse"),
   mode |-> FieldOr(opts, "mode", "blink"),
   isFocused |-> FALSE,
   isBlinkingOff |-> FALSE,
   blinkController |-> [timeoutId |-> {}, abortController |-> {}]]

BlinkController_cancel(c) ==
  LET ctl == c.this.blinkController
      aborted == [i \in DOMAIN c.signals |->
                    IF i \in ctl.abortController THEN TRUE ELSE c.signals[i]]
      cleared == {l \in c.loops : ~(l.at = "timeout" /\ l.signal \in ctl.timeoutId)}
  IN [c EXCEPT !.signals = aborted,
               !.loops = cleared,
               !.this.blinkController = [timeoutId |-> {}, abortController |-> {}]]

BlinkController_isActive(c) ==
  /\ c.this.blinkController.abortController # {}
  /\ \A i \in c.this.blinkController.abortController : ~c.signals[i]

\* start(ms, callback): the callback is the one of _startBlinking
BlinkController_start(c) ==
  LET cancelled == BlinkController_cancel(c)
      signal == Len(cancelled.signals) + 1
  IN [cancelled EXCEPT !.signals = Append(@, FALSE),
                       !.loops = @ \cup {[signal |-> signal, at |-> "timeout"]},
                       !.this.blinkController =
                          [timeoutId |-> {signal}, abortController |-> {signal}]]

Cursor_startBlinking(c) ==
  BlinkController_start([BlinkController_cancel(c) EXCEPT !.this.isBlinkingOff = FALSE])

Cursor_stopBlinking(c) ==
  [BlinkController_cancel(c) EXCEPT !.this.isBlinkingOff = FALSE]

Cursor_updateBlinkState(c) ==
  LET changed == [c EXCEPT !.wasReset = FALSE]
  IN IF changed.this.mode = "blink" /\ changed.this.isFocused
       THEN Cursor_startBlinking(changed)
       ELSE Cursor_stopBlinking(changed)

Cursor_setMode(c, mode) ==
  IF mode = c.this.mode THEN c
  ELSE IF mode \in {"blink", "static", "hide"}
         THEN Cursor_updateBlinkState([c EXCEPT !.this.mode = mode])
         ELSE c

Cursor_setFocus(c, focused) ==
  IF focused = c.this.isFocused THEN c
  ELSE Cursor_updateBlinkState([c EXCEPT !.this.isFocused = focused])

Cursor_setStyle(c, style) == [c EXCEPT !.this.style = style]

Cursor_setChar(c, ch) ==
  [c EXCEPT !.this.char = IF Len(ch) > 0 THEN Slice(ch, 1) ELSE <<32>>]

\* setBlinkSpeed starting the loop whether or not one is active
Cursor_setBlinkSpeed_AlwaysStarts(c, ms) ==
  IF ms > 0
    THEN Cursor_startBlinking([c EXCEPT !.this.blinkSpeed = ms])
    ELSE c

Cursor_setBlinkSpeed(c, ms) ==
  IF ms > 0
    THEN LET set == [c EXCEPT !.this.blinkSpeed = ms]
         IN IF BlinkController_isActive(set) THEN Cursor_startBlinking(set) ELSE set
    ELSE c

Cursor_reset(c) == [Cursor_stopBlinking(c) EXCEPT !.wasReset = TRUE]

\* The callback _startBlinking hands to the controller, called by loop
BlinkCallback(c, loop) ==
  IF BlinkController_isActive(c)
    THEN [c EXCEPT !.this.isBlinkingOff = ~c.this.isBlinkingOff,
                   !.acted = @ \cup {loop.signal}]
    ELSE c

\* The timer of the loop fires: loop() runs up to its await
LoopCalled(c, loop) ==
  [c EXCEPT !.loops = (@ \ {loop}) \cup {[loop EXCEPT !.at = "sleep"]}]

\* loop after its sleep, calling the callback without a look at its signal
LoopResumed_Unchecked(c, loop) ==
  LET called == BlinkCallback(c, loop)
  IN [called EXCEPT !.loops = (@ \ {loop}) \cup {[loop EXCEPT !.at = "timeout"]},
                    !.this.blinkController.timeoutId = {loop.signal}]

\* loop after its sleep
LoopResumed(c, loop) ==
  IF ~c.signals[loop.signal]
    THEN LET called == BlinkCallback(c, loop)
         IN [called EXCEPT !.loops = (@ \ {loop}) \cup {[loop EXCEPT !.at = "timeout"]},
                           !.this.blinkController.timeoutId = {loop.signal}]
    ELSE [c EXCEPT !.loops = @ \ {loop}]

MaxLoops == 3

CursorModes == {"blink", "static", "hide"}

BlinkSpeeds == {400, 0}

CursorChars == {<<>>, <<124, 95>>}

CursorStyles == {"red.inverse"}

(***************************************************************************)
(* SpecCursor: new Cursor(options), then any call of its methods, any      *)
(* timer firing and any sleep ending.  At most MaxLoops loops are started. *)
(***************************************************************************)
InitCursor ==
  /\ pc = "new Cursor"
  /\ \E opts \in {<<>>} \cup {[mode |-> m] : m \in CursorModes} : cursor = NewCursor(opts)
  /\ signals = <<>>
  /\ loops = {}
  /\ acted = {}
  /\ wasReset = FALSE
  /\ spinner = <<>>
  /\ IdleWink
  /\ IdleWhirl
  /\ IdleRune
  /\ IdleApp
  /\ IdleChrono

\* The state a call or a callback begins in
Calling == [this |-> cursor, signals |-> signals, loops |-> loops, acted |-> {},
            wasReset |-> wasReset]

\* The method or callback named method left c
CursorCall(method, c) ==
  /\ Len(c.signals) <= MaxLoops
  /\ pc' = method
  /\ cursor' = c.this
  /\ signals' = c.signals
  /\ loops' = c.loops
  /\ acted' = c.acted
  /\ wasReset' = c.wasReset
  /\ UNCHANGED <<options, utilAvailable, input, output, spinner, charVars, passVars,
                 truncateVars, appVars, chronoVars, whirlVars, winkVars>>

SetMode == \E mode \in CursorModes : CursorCall("setMode", Cursor_setMode(Calling, mode))

SetFocus == \E focused \in BOOLEAN : CursorCall("setFocus", Cursor_setFocus(Calling, focused))

SetBlinkSpeed ==
  \E ms \in BlinkSpeeds : CursorCall("setBlinkSpeed", Cursor_setBlinkSpeed(Calling, ms))

SetChar == \E ch \in CursorChars : CursorCall("setChar", Cursor_setChar(Calling, ch))

SetStyle == \E style \in CursorStyles : CursorCall("setStyle", Cursor_setStyle(Calling, style))

CursorReset == CursorCall("reset", Cursor_reset(Calling))

\* The zero delay timer of a loop fires
TimeoutFires ==
  \E loop \in loops : loop.at = "timeout" /\ CursorCall("loop", LoopCalled(Calling, loop))

\* The sleep of a loop ends
SleepEnds ==
  \E loop \in loops : loop.at = "sleep" /\ CursorCall("sleep ends", LoopResumed(Calling, loop))

NextCursor ==
  \/ SetMode \/ SetFocus \/ SetBlinkSpeed \/ SetChar \/ SetStyle \/ CursorReset
  \/ TimeoutFires \/ SleepEnds

SpecCursor == InitCursor /\ [][NextCursor]_vars

\* blinkController.isActive() of the cursor
IsActive ==
  /\ cursor.blinkController.abortController # {}
  /\ \A i \in cursor.blinkController.abortController : ~signals[i]

\* The loops whose signal is not aborted
LiveLoops == {l \in loops : ~signals[l.signal]}

\* C23: in mode 'blink' the Cursor blinks when focused: in every state
\* reachable by any sequence of setMode, setFocus, setBlinkSpeed, setChar,
\* setStyle and reset, the blink controller is active (a blink loop is
\* scheduled) if and only if mode = 'blink' and the cursor is focused.
C23_ActiveIffBlinkAndFocused ==
  (IsActive /\ LiveLoops # {}) <=> (cursor.mode = "blink" /\ cursor.isFocused)

\* C23, as the code has it: the blink controller is active (a blink loop is
\* scheduled) if and only if mode = 'blink', the cursor is focused and reset
\* was not called since the mode or the focus last changed; after reset no
\* loop is scheduled until a setMode or setFocus that changes the value.
C23_ActiveUnlessReset ==
  /\ IsActive <=> (cursor.mode = "blink" /\ cursor.isFocused /\ ~wasReset)
  /\ IsActive <=> LiveLoops # {}

\* setBlinkSpeed was called on a focused cursor in blink mode after reset: the
\* speed is set and no loop is started
C23_Witness ==
  /\ pc = "setBlinkSpeed"
  /\ cursor.mode = "blink"
  /\ cursor.isFocused
  /\ cursor.blinkSpeed = 400
  /\ wasReset
  /\ ~IsActive
  /\ LiveLoops = {}

\* C29: a cancelled blink loop of Cursor never acts again: after
\* setFocus(false), setMode('static' | 'hide') or reset(), isBlinkingOff is
\* false, and no loop scheduled before toggles isBlinkingOff or calls
\* onUpdate, even if its sleep ends after a new loop was started by a later
\* setFocus(true), setMode('blink') or setBlinkSpeed; at most one loop toggles
\* the blink state at any time.
C29_CancelledLoopNeverActs ==
  /\ Cardinality(LiveLoops) <= 1
  /\ \A s \in acted : ~signals[s] /\ s \in cursor.blinkController.abortController
  /\ ~IsActive => ~cursor.isBlinkingOff
  /\ (\/ pc = "reset"
      \/ pc = "setFocus" /\ ~cursor.isFocused
      \/ pc = "setMode" /\ cursor.mode # "blink") => ~IsActive /\ LiveLoops = {}

\* The sleep of a cancelled loop ended while the loop started after it was in
\* its own sleep with the cursor blinked off: the cursor stays as it is
C29_Witness ==
  /\ pc = "sleep ends"
  /\ acted = {}
  /\ IsActive
  /\ cursor.isBlinkingOff
  /\ Len(signals) = 3
  /\ loops = {[signal |-> 3, at |-> "sleep"]}

(***************************************************************************)
(* Wink (lib/cursor/wink.ts) and CursorModel, the cursors driven by        *)
(* messages.  The object is a record of its fields, kind naming its class  *)
(* and blinkContext holding the fields of its BlinkContext: timeoutId is   *)
(* {} for null or the set of the one blink message the pending timer       *)
(* resolves its command to.  An object literal { ...this, f: v } is the    *)
(* record of the same fields with kind "Object": it has the fields and     *)
(* none of the methods.  update returns the object as it leaves it (this), *)
(* the object it returns (ret: <<>> for this itself, <<copy>> for an       *)
(* object literal) and the command (cmd: {} for null or the set of the     *)
(* one blink message the command resolves to).                             *)
(***************************************************************************)
CursorMode == [Blink |-> 0, Static |-> 1, Hide |-> 2]

\* The field initialisers of class Wink and of class CursorModel
NewWink(kind) ==
  [kind |-> kind, blinkSpeed |-> 530, char |-> <<32>>, id |-> 0, focus |-> FALSE,
   blink |-> TRUE, mode |-> CursorMode.Blink, blinkTag |-> 0,
   blinkContext |-> [timeoutId |-> {}]]

\* { ...this, ...fields }
Spread(this, fields) ==
  [f \in DOMAIN this |->
     IF f = "kind" THEN "Object" ELSE FieldOr(fields, f, this[f])]

BlinkContext_cancel(this) == [this EXCEPT !.blinkContext.timeoutId = {}]

\* start(ms, callback), the callback resolving the command to msg
BlinkContext_start(this, msg) ==
  [BlinkContext_cancel(this) EXCEPT !.blinkContext.timeoutId = {msg}]

shouldBlink(this) == this.mode = CursorMode.Blink /\ this.focus

\* validateBlink without the comparison of the tags
validateBlink_AnyTag(this, msg) == shouldBlink(this) /\ msg.id = this.id

validateBlink(this, msg) ==
  shouldBlink(this) /\ msg.id = this.id /\ msg.tag = this.blinkTag

blinkCommand(this) ==
  IF ~shouldBlink(this) THEN [this |-> this, cmd |-> {}]
  ELSE LET tagged == [BlinkContext_cancel(this) EXCEPT !.blinkTag = @ + 1]
       IN [this |-> tagged,
           cmd |-> {[type |-> "blink", id |-> tagged.id, tag |-> tagged.blinkTag]}]

setMode(this, mode) ==
  IF mode < CursorMode.Blink \/ mode > CursorMode.Hide THEN this
  ELSE [this EXCEPT !.mode = mode, !.blink = (mode = CursorMode.Hide \/ ~this.focus)]

\* Wink.applyOptions, for options that give blinkSpeed or mode
applyOptions(this, opts) ==
  LET sped == [this EXCEPT !.blinkSpeed = FieldOr(opts, "blinkSpeed", this.blinkSpeed)]
  IN IF "mode" \in DOMAIN opts THEN setMode(sped, opts.mode) ELSE sped

Wink_reset(this) ==
  [BlinkContext_cancel(this) EXCEPT !.blinkTag = 0, !.id = @ + 1, !.blink = TRUE]

Wink_update(this, msg) ==
  CASE msg.type = "initialBlink" ->
         IF ~shouldBlink(this) THEN [this |-> this, ret |-> <<>>, cmd |-> {}]
         ELSE LET command == blinkCommand(this)
              IN [this |-> command.this, ret |-> <<>>, cmd |-> command.cmd]
    [] msg.type = "focus" ->
         LET copy == Spread(this, [focus |-> TRUE, blink |-> this.mode = CursorMode.Hide])
             command == blinkCommand(this)
         IN [this |-> command.this, ret |-> <<copy>>, cmd |-> command.cmd]
    [] msg.type = "blur" ->
         LET cancelled == BlinkContext_cancel(this)
         IN [this |-> cancelled,
             ret |-> <<Spread(cancelled, [focus |-> FALSE, blink |-> TRUE])>>,
             cmd |-> {}]
    [] msg.type = "blink" ->
         IF ~validateBlink(this, msg) THEN [this |-> this, ret |-> <<>>, cmd |-> {}]
         ELSE LET copy == Spread(this, [blink |-> ~this.blink])
                  command == blinkCommand(this)
              IN [this |-> command.this, ret |-> <<copy>>, cmd |-> command.cmd]
    [] msg.type = "updateOptions" ->
         LET applied == applyOptions(this, msg.options)
             command == blinkCommand(applied)
         IN IF shouldBlink(applied)
              THEN [this |-> command.this, ret |-> <<>>, cmd |-> command.cmd]
              ELSE [this |-> applied, ret |-> <<>>, cmd |-> {}]
    [] OTHER -> [this |-> this, ret |-> <<>>, cmd |-> {}]

handleFocus(this) ==
  LET focused == [this EXCEPT !.focus = TRUE, !.blink = (this.mode = CursorMode.Hide)]
  IN IF shouldBlink(focused) THEN blinkCommand(focused)
     ELSE [this |-> focused, cmd |-> {}]

handleBlur(this) ==
  BlinkContext_cancel([this EXCEPT !.focus = FALSE, !.blink = TRUE])

CursorModel_update(this, msg) ==
  CASE msg.type = "initialBlink" ->
         IF ~shouldBlink(this) THEN [this |-> this, ret |-> <<>>, cmd |-> {}]
         ELSE LET command == blinkCommand(this)
              IN [this |-> command.this, ret |-> <<>>, cmd |-> command.cmd]
    [] msg.type = "focus" ->
         LET command == handleFocus(this)
         IN [this |-> command.this, ret |-> <<>>, cmd |-> command.cmd]
    [] msg.type = "blur" -> [this |-> handleBlur(this), ret |-> <<>>, cmd |-> {}]
    [] msg.type = "blink" ->
         IF ~validateBlink(this, msg) THEN [this |-> this, ret |-> <<>>, cmd |-> {}]
         ELSE LET command == blinkCommand([this EXCEPT !.blink = ~this.blink])
              IN [this |-> command.this, ret |-> <<>>, cmd |-> command.cmd]
    [] OTHER -> [this |-> this, ret |-> <<>>, cmd |-> {}]

MaxTag == 2
MaxWinkId == 1

BlinkMessages ==
  {[type |-> "blink", id |-> i, tag |-> t] : i \in 0..MaxWinkId, t \in 0..MaxTag}

WinkOptions == {[mode |-> CursorMode.Static], [blinkSpeed |-> 530, mode |-> CursorMode.Blink]}

(***************************************************************************)
(* SpecTea: new Wink() or new CursorModel(), held by a program that sends  *)
(* it messages through update, calls setMode and reset, runs the commands  *)
(* update returned (any of them, at any time) and delivers the blink       *)
(* messages they resolved to (any of them, in any order, once or more).    *)
(* before holds the object and the commands issued before the call.        *)
(***************************************************************************)
InitTea ==
  /\ pc = "new"
  /\ \E kind \in {"Wink", "CursorModel"} : wink = NewWink(kind)
  /\ issued = <<>>
  /\ resolved = {}
  /\ spinner = <<>>
  /\ IdleCursor
  /\ IdleWhirl
  /\ IdleRune
  /\ IdleApp
  /\ IdleChrono

\* The call named step, given the messages of msg, left the object as r.this
\* and returned r.ret and r.cmd
TeaStep(step, msg, r) ==
  /\ r.this.blinkTag <= MaxTag
  /\ r.this.id <= MaxWinkId
  /\ pc' = step
  /\ receiver' = 1
  /\ before' = <<wink, issued>>
  /\ wink' = r.this
  /\ returned' = [ref |-> IF r.ret = <<>> THEN 1 ELSE 0, copy |-> r.ret, cmd |-> r.cmd]
  /\ message' = msg
  /\ LET marked == IF step \in {"focus", "reset"}
                     THEN [i \in DOMAIN issued |-> [issued[i] EXCEPT !.old = TRUE]]
                     ELSE issued
     IN issued' = IF r.cmd = {} THEN marked
                  ELSE Append(marked, [msg |-> CHOOSE m \in r.cmd : TRUE, old |-> FALSE])
  /\ UNCHANGED <<resolved, options, utilAvailable, input, output, instances, inflight,
                 spinner, charVars, passVars, truncateVars, appVars, whirlVars, cursorVars>>

\* update of the class of the object
TeaUpdate(this, msg) ==
  IF this.kind = "Wink" THEN Wink_update(this, msg) ELSE CursorModel_update(this, msg)

Send(msg) == TeaStep(msg.type, {msg}, TeaUpdate(wink, msg))

SendInitialBlink == Send([type |-> "initialBlink"])

SendFocus == Send([type |-> "focus"])

SendBlur == Send([type |-> "blur"])

SendBlinkCanceled == Send([type |-> "blinkCanceled"])

SendUpdateOptions ==
  \E opts \in WinkOptions : Send([type |-> "updateOptions", options |-> opts])

\* A blink message made by the program or meant for another cursor
SendBlink == \E msg \in BlinkMessages : Send(msg)

\* A blink message a command resolved to is given to update
DeliverBlink == \E msg \in resolved : Send(msg)

TeaSetMode ==
  \E mode \in 0..3 :
    TeaStep("setMode", {}, [this |-> setMode(wink, mode), ret |-> <<>>, cmd |-> {}])

WinkReset ==
  /\ wink.kind = "Wink"
  /\ TeaStep("reset", {}, [this |-> Wink_reset(wink), ret |-> <<>>, cmd |-> {}])

\* The program calls a command it was returned: the timer is started
RunBlinkCommand ==
  \E command \in Range(issued) :
    /\ pc' = "command"
    /\ wink' = BlinkContext_start(wink, command.msg)
    /\ UNCHANGED <<issued, resolved, options, utilAvailable, input, output, chronoVars,
                   spinner, charVars, passVars, truncateVars, appVars, whirlVars, cursorVars>>

\* The timer of the blink context fires
BlinkTimerFires ==
  /\ wink.blinkContext.timeoutId # {}
  /\ pc' = "timeout"
  /\ resolved' = resolved \cup wink.blinkContext.timeoutId
  /\ wink' = [wink EXCEPT !.blinkContext.timeoutId = {}]
  /\ UNCHANGED <<issued, options, utilAvailable, input, output, chronoVars,
                 spinner, charVars, passVars, truncateVars, appVars, whirlVars, cursorVars>>

NextTea ==
  \/ SendInitialBlink \/ SendFocus \/ SendBlur \/ SendBlinkCanceled \/ SendUpdateOptions
  \/ SendBlink \/ DeliverBlink \/ TeaSetMode \/ WinkReset \/ RunBlinkCommand
  \/ BlinkTimerFires

SpecTea == InitTea /\ [][NextTea]_vars

\* C22: sending {type: 'focus'} to a Wink cursor in Blink mode focuses the
\* cursor and starts blinking: after cursor.update({type: 'focus'}) the
\* cursor reports isFocused() = true and the returned command is non-null
\* (and feeding that command's blink message back to update toggles the blink
\* state and yields the next blink command).
C22_FocusStartsBlinking ==
  (pc = "focus" /\ wink.kind = "Wink" /\ before[1].mode = CursorMode.Blink) =>
    /\ wink.focus
    /\ returned.cmd # {}

\* The blink state was toggled by the last call of update
Toggled ==
  IF returned.copy = <<>> THEN wink.blink # before[1].blink
  ELSE returned.copy[1].blink # before[1].blink

\* C28: in the message-driven cursor (Wink / CursorModel) a blink message
\* toggles the blink state only if the cursor is in Blink mode and focused,
\* the message id is the cursor id and the message tag is the latest
\* blinkTag; every blink command issued increments blinkTag (and reset()
\* increments id), so a blink message issued before a later focus,
\* blur-then-focus or reset is never accepted, and at most one outstanding
\* blink message can be accepted at any time.
C28_StaleBlinkNeverAccepted ==
  /\ (pc = "blink" /\ Toggled) =>
       \A msg \in message :
         /\ validateBlink(before[1], msg)
         /\ msg \in resolved =>
              \A command \in Range(before[2]) : command.msg = msg => ~command.old
  /\ \A m \in resolved :
       validateBlink(wink, m) => m = issued[Len(issued)].msg

\* C28, as the code has it: a blink message toggles the blink state only if
\* the cursor is in Blink mode and focused, the message id is the cursor id
\* and the message tag is the latest blinkTag; every blink command issued
\* increments blinkTag, so the message of a command issued before a later
\* command is never accepted, and of the messages outstanding only those of
\* the command issued last can be accepted; accepting one issues the next
\* command, after which they are stale.  A focus message that issues no
\* command (the cursor not in Blink mode) leaves the message outstanding
\* acceptable once the mode is Blink again.
C28_OnlyLatestBlinkAccepted ==
  /\ pc = "blink" =>
       \A msg \in message :
         LET this == before[1]
         IN /\ Toggled =>
                 /\ this.mode = CursorMode.Blink
                 /\ this.focus
                 /\ msg.id = this.id
                 /\ msg.tag = this.blinkTag
                 /\ \A i \in DOMAIN before[2] :
                      before[2][i].msg = msg => i = Len(before[2])
                 /\ returned.cmd # {}
                 /\ wink.blinkTag = this.blinkTag + 1
                 /\ ~validateBlink(wink, msg)
            /\ ~Toggled => wink = this /\ returned.cmd = {}
  /\ \A m \in resolved :
       validateBlink(wink, m) => m = issued[Len(issued)].msg

\* A CursorModel was focused, its command run and resolved, then blurred and
\* focused again: the message of the first command comes back and is not
\* accepted
C28_Witness ==
  /\ pc = "blink"
  /\ wink.kind = "CursorModel"
  /\ message = {[type |-> "blink", id |-> 0, tag |-> 1]}
  /\ message \subseteq resolved
  /\ before[1].focus
  /\ before[1].mode = CursorMode.Blink
  /\ before[1].blinkTag = 2
  /\ wink = before[1]
  /\ returned.cmd = {}

\* C31: the Whirl frame index always cycles within the current style: after
\* any sequence of start, stop, frame(), render() and assignments to the
\* spinner property, spinning or not, 0 <= _frameIndex < frames.length of the
\* current spinner style, so that frame() returns one of the current style's
\* frames.
C31_FrameIndexWithinStyle ==
  /\ whirl.frameIndex >= 0
  /\ whirl.frameIndex < Len(whirl.spinner.frames)

(***************************************************************************)
(* Progress (progress bar).  The object is a record of its fields changed  *)
(* in place; value and total are integers; a ratio is a pair of numerator  *)
(* and denominator.  The timing estimate (startTime, samples, elapsed and  *)
(* eta) is left out: update, reset and getState keep it and nothing else   *)
(* reads it.  Of the text render makes, the bar is modelled; the template  *)
(* around it and the colours, which add no cells, are not.  A method works *)
(* on the object, the interval timers and the bar written, and says        *)
(* whether it threw.                                                       *)
(***************************************************************************)
Min2(a, b) == IF a <= b THEN a ELSE b

Max2(a, b) == IF a >= b THEN a ELSE b

RECURSIVE Repeat(_, _)
\* String.prototype.repeat(count), count >= 0
Repeat(str, count) == IF count <= 0 THEN <<>> ELSE str \o Repeat(str, count - 1)

\* Math.floor(width * ratio)
FloorTimes(cells, ratio) == (cells * ratio[1]) \div ratio[2]

DEFAULT_PARTIAL_BLOCKS ==
  <<<<32>>, <<9615>>, <<9614>>, <<9613>>, <<9612>>, <<9611>>, <<9610>>, <<9609>>>>

\* The options the constructor fills in
ProgressDefaults ==
  [width |-> 20, complete |-> <<35>>, incomplete |-> <<45>>, head |-> <<>>,
   style |-> "block", rtl |-> FALSE, animate |-> FALSE,
   animationFrames |-> <<<<10251>>, <<10265>>, <<10297>>, <<10296>>, <<10300>>,
                         <<10292>>, <<10278>>, <<10279>>, <<10247>>, <<10255>>>>,
   partialBlocks |-> DEFAULT_PARTIAL_BLOCKS]

\* { ...base, ...given }
Merge(base, given) ==
  [k \in DOMAIN base |-> IF k \in DOMAIN given THEN given[k] ELSE base[k]]

\* The constructor: the fields, and reset() has nothing to stop
NewProgress(given) ==
  [options |-> Merge(ProgressDefaults, given),
   value |-> 0,
   total |-> 100,
   lastOutput |-> <<>>,
   animationIndex |-> 0,
   animationTimer |-> {}]

\* The state a call begins in
ProgressEntering(this, ts) == [this |-> this, timers |-> ts, bar |-> {}, thrown |-> FALSE]

stopAnimation(p) ==
  IF p.this.animationTimer # {}
    THEN [p EXCEPT !.timers = {t \in @ : t.handle \notin p.this.animationTimer},
                   !.this.animationTimer = {}]
    ELSE p

startAnimation(p) ==
  IF p.this.animationTimer # {} THEN p
  ELSE LET h == CHOOSE n \in 1..(Cardinality(p.timers) + 1) : n \notin Handles(p.timers)
       IN [p EXCEPT !.this.animationTimer = {h},
                    !.timers = @ \cup {[handle |-> h, kind |-> "interval"]}]

Progress_reset(p) == stopAnimation([p EXCEPT !.this.value = 0])

setTotal(p, total) == [p EXCEPT !.this.total = Max2(0, total)]

\* getState: ratio, value, total and complete of the state it returns
getState(this) ==
  [ratio |-> IF this.total > 0 THEN <<this.value, this.total>> ELSE <<0, 1>>,
   value |-> this.value,
   total |-> this.total,
   complete |-> this.value >= this.total]

\* The bars: {} when repeat was given a negative count and threw a
\* RangeError, or the set of the one string returned
renderBlockBar(this, ratio) ==
  LET barWidth == this.options.width
      completeLength == FloorTimes(barWidth, ratio)
      incompleteLength ==
        barWidth - completeLength - (IF this.options.head # <<>> THEN 1 ELSE 0)
      completeStr == Repeat(this.options.complete, completeLength)
      incompleteStr == Repeat(this.options.incomplete, Max2(0, incompleteLength))
      headStr == IF completeLength < barWidth /\ this.options.head # <<>>
                   THEN this.options.head ELSE <<>>
  IN IF completeLength < 0 THEN {}
     ELSE IF this.options.rtl THEN {incompleteStr \o headStr \o completeStr}
     ELSE {completeStr \o headStr \o incompleteStr}

renderSmoothBar(this, ratio) ==
  LET barWidth == this.options.width
      completeBlockCount == FloorTimes(barWidth, ratio)
      partialBlockIndex ==
        ((((barWidth * ratio[1]) % ratio[2]) * Len(this.options.partialBlocks))
           \div ratio[2])
      completeStr == Repeat(this.options.complete, completeBlockCount)
      partialStr == IF partialBlockIndex > 0
                      THEN this.options.partialBlocks[partialBlockIndex + 1] ELSE <<>>
      incompleteStr ==
        Repeat(this.options.incomplete,
               Max2(0, barWidth - completeBlockCount - (IF partialStr # <<>> THEN 1 ELSE 0)))
  IN IF completeBlockCount < 0 THEN {}
     ELSE IF this.options.rtl THEN {incompleteStr \o partialStr \o completeStr}
     ELSE {completeStr \o partialStr \o incompleteStr}

\* renderBrailleBar has the same body
renderGradientBar(this, ratio) ==
  LET barWidth == this.options.width
      completeLength == FloorTimes(barWidth, ratio)
      incompleteLength == barWidth - completeLength
      completeStr == Repeat(this.options.complete, completeLength)
      incompleteStr == Repeat(this.options.incomplete, incompleteLength)
  IN IF completeLength < 0 \/ incompleteLength < 0 THEN {}
     ELSE IF this.options.rtl THEN {incompleteStr \o completeStr}
     ELSE {completeStr \o incompleteStr}

\* render: the bar of the style goes to lastOutput and to the callback
Progress_render(p) ==
  LET this == p.this
      state == getState(this)
      bar == CASE this.options.style = "smooth" -> renderSmoothBar(this, state.ratio)
               [] this.options.style \in {"gradient", "braille"} ->
                    renderGradientBar(this, state.ratio)
               [] this.options.style = "text" -> {<<>>}
               [] this.options.style = "custom" ->
                    IF this.options.animate
                      THEN {this.options.animationFrames[this.animationIndex + 1]}
                      ELSE {this.options.complete}
               [] OTHER -> renderBlockBar(this, state.ratio)
  IN IF bar = {} THEN [p EXCEPT !.thrown = TRUE]
     ELSE [p EXCEPT !.this.lastOutput = CHOOSE b \in bar : TRUE, !.bar = bar]

\* update(value, forceRender); due says whether updateInterval has passed
\* since the last render
Progress_update(p, value, forceRender, due) ==
  LET clamped == [p EXCEPT !.this.value = Max2(0, Min2(value, p.this.total))]
      drawn == IF forceRender \/ due THEN Progress_render(clamped) ELSE clamped
  IN IF drawn.thrown THEN drawn
     ELSE IF drawn.this.options.animate /\ drawn.this.value < drawn.this.total
       THEN startAnimation(drawn)
     ELSE IF drawn.this.value >= drawn.this.total THEN stopAnimation(drawn)
     ELSE drawn

increment(p, amount, due) == Progress_update(p, p.this.value + amount, FALSE, due)

\* percent(percent): the totals and the percentages of the model make
\* (percent / 100) * total a whole number
percent(p, pct, due) == Progress_update(p, (pct * p.this.total) \div 100, FALSE, due)

complete(p) == Progress_update(p, p.this.total, TRUE, FALSE)

Progress_configure(p, given) == [p EXCEPT !.this.options = Merge(@, given)]

\* theme(themeName): no theme of the name, or the options of the theme
theme(p, found) ==
  IF found # {} THEN Progress_configure(p, CHOOSE t \in found : TRUE) ELSE p

\* The callback of startAnimation's interval
AnimationTick(p) ==
  Progress_render([p EXCEPT !.this.animationIndex =
                              (@ + 1) % Len(p.this.options.animationFrames)])

MaxValue == 3
ProgressTotals == {-1, 2}
ProgressValues == {-1, 1, 3, 200}
ProgressAmounts == {1, -1}
ProgressPercents == {50, 150}
ProgressOptionSets ==
  {[animate |-> TRUE], [animate |-> FALSE],
   [style |-> "smooth", width |-> 3],
   [style |-> "gradient", rtl |-> TRUE]}
ProgressThemes == {[style |-> "braille"]}

(***************************************************************************)
(* SpecProgress: new Progress(options), then any call of its methods and   *)
(* the animation timer firing.  before holds the timers of before the      *)
(* call, output the bar of the last render, rendered whether               *)
(* the step rendered one, returned.cmd the error of a call that threw.     *)
(***************************************************************************)
InitProgress ==
  /\ pc = "new Progress"
  /\ \E given \in {[width |-> 4, head |-> <<62>>, animationFrames |-> <<<<45>>, <<124>>>>],
                   [animate |-> TRUE, style |-> "custom",
                    animationFrames |-> <<<<45>>, <<124>>>>]} :
       progress = NewProgress(given)
  /\ twigs = <<>>
  /\ renderers = <<>>
  /\ builder = <<>>
  /\ calls = <<>>
  /\ session = <<>>
  /\ IdleRune
  /\ IdleChrono
  /\ spinner = <<>>
  /\ IdleWhirl
  /\ IdleCursor
  /\ IdleWink

\* The method or callback named method left p
ProgressCall(method, p) ==
  /\ p.this.value <= MaxValue \/ p.this.value = p.this.total
  /\ pc' = method
  /\ before' = timers
  /\ progress' = p.this
  /\ timers' = p.timers
  /\ rendered' = (p.bar # {})
  /\ output' = IF p.bar # {} THEN CHOOSE b \in p.bar : TRUE ELSE output
  /\ returned' = [ref |-> IF p.thrown THEN 0 ELSE 1,
                  cmd |-> IF p.thrown THEN {"RangeError"} ELSE {}]
  /\ UNCHANGED <<options, utilAvailable, input, instances, receiver, inflight, message,
                 charVars, passVars, truncateVars, spinner, whirl, persisted, promise,
                 cursorVars, winkVars, twigs, renderers, builder, calls, session>>

ProgressUpdate ==
  \E value \in ProgressValues, forceRender \in BOOLEAN, due \in BOOLEAN :
    ProgressCall("update",
                 Progress_update(ProgressEntering(progress, timers), value, forceRender, due))

Increment ==
  \E amount \in ProgressAmounts, due \in BOOLEAN :
    ProgressCall("increment", increment(ProgressEntering(progress, timers), amount, due))

Percent ==
  \E pct \in ProgressPercents, due \in BOOLEAN :
    ProgressCall("percent", percent(ProgressEntering(progress, timers), pct, due))

Complete == ProgressCall("complete", complete(ProgressEntering(progress, timers)))

ProgressReset == ProgressCall("reset", Progress_reset(ProgressEntering(progress, timers)))

SetTotal ==
  \E total \in ProgressTotals :
    ProgressCall("setTotal", setTotal(ProgressEntering(progress, timers), total))

ProgressConfigure ==
  \E given \in ProgressOptionSets :
    ProgressCall("configure", Progress_configure(ProgressEntering(progress, timers), given))

Theme ==
  \E found \in {{}} \cup {{t} : t \in ProgressThemes} :
    ProgressCall("theme", theme(ProgressEntering(progress, timers), found))

ProgressRender == ProgressCall("render", Progress_render(ProgressEntering(progress, timers)))

AnimationFires ==
  \E timer \in timers :
    ProgressCall("interval", AnimationTick(ProgressEntering(progress, timers)))

NextProgress ==
  \/ ProgressUpdate \/ Increment \/ Percent \/ Complete \/ ProgressReset \/ SetTotal
  \/ ProgressConfigure \/ Theme \/ ProgressRender \/ AnimationFires

SpecProgress == InitProgress /\ [][NextProgress]_vars

\* C32: after any sequence of setTotal, update, increment, percent, complete
\* and reset on a Progress, 0 <= value <= total holds, hence the ratio that
\* getState() reports lies in [0, 1] and every rendered bar has at most
\* width cells.
C32_ValueWithinTotal ==
  /\ 0 <= progress.value
  /\ progress.value <= progress.total
  /\ getState(progress).ratio[1] <= getState(progress).ratio[2]
  /\ rendered => Len(output) <= progress.options.width

\* The calls that go through update
UpdateCalls == {"update", "increment", "percent", "complete"}

\* C33: the Progress animation timer is active only where options.animate is
\* true and value < total: at most one interval timer exists, it is started
\* only by update under that condition, and after any update, complete,
\* reset, configure or theme call that makes animate false or value >= total
\* the next update leaves no animation timer running.
C33_AnimationOnlyWhileAnimating ==
  /\ Cardinality(timers) <= 1
  /\ Handles(timers) = progress.animationTimer
  /\ (timers # {} /\ before = {}) =>
       /\ pc \in UpdateCalls
       /\ progress.options.animate
       /\ progress.value < progress.total
  /\ (pc \in UpdateCalls /\ returned.cmd = {} /\ timers # {}) =>
       /\ progress.options.animate
       /\ progress.value < progress.total

(***************************************************************************)
(* Tree: Renderer, Leaf, NodeChildren, Twig.  Twigs and Renderers are      *)
(* objects with identity: a heap h holds them in the order of their        *)
(* creation, h.twigs[n] the fields of Twig n and h.renderers[r] those of   *)
(* Renderer r.  A Leaf and a NodeChildren never change once made, so they  *)
(* are values: a node is a record that is a Leaf or names a Twig, and a    *)
(* NodeChildren is the sequence of its nodes.  A Renderer is one of the    *)
(* 'ascii' style with no stylers; of its configuration maxDepth is given.  *)
(***************************************************************************)
LeafOf(valueStr, isHidden, data) ==
  [kind |-> "Leaf", ref |-> 0, valueStr |-> valueStr, isHidden |-> isHidden, data |-> data]

TwigRef(n) == [kind |-> "Twig", ref |-> n, valueStr |-> <<>>, isHidden |-> FALSE, data |-> {}]

\* node.value(), node.hidden(), node.children().toArray(), node.data
NodeValue(h, node) == IF node.kind = "Twig" THEN h.twigs[node.ref].valueStr ELSE node.valueStr

NodeHidden(h, node) == IF node.kind = "Twig" THEN h.twigs[node.ref].isHidden ELSE node.isHidden

NodeChildrenOf(h, node) == IF node.kind = "Twig" THEN h.twigs[node.ref].childrenData ELSE <<>>

NodeData(h, node) == IF node.kind = "Twig" THEN h.twigs[node.ref].data ELSE node.data

\* NodeChildren.append: a new NodeChildren, the one it is called on stays
NodeChildren_append(nodes, child) == Append(nodes, child)

\* new Renderer(config), config giving maxDepth or nothing
NewRenderer(config) ==
  [depth |-> 0,
   maxDepth |-> FieldOr(config, "maxDepth", 100),
   maxValueLength |-> 0,
   shouldTruncate |-> FALSE,
   truncateSuffix |-> <<46, 46, 46>>,
   emptyNodeSymbol |-> <<40, 101, 109, 112, 116, 121, 41>>]

\* StylePreset.get('ascii'): the enumerator and the indenter, index from 1
AsciiEnumerator(children, index) ==
  IF Len(children) = index THEN <<92, 45, 45>> ELSE <<124, 45, 45>>

AsciiIndenter(children, index) ==
  IF Len(children) = index THEN <<32, 32, 32>> ELSE <<124, 32, 32>>

formatValue(this, str) ==
  IF str = <<>> THEN this.emptyNodeSymbol
  ELSE IF this.shouldTruncate /\ this.maxValueLength > 0
    THEN truncate(str, this.maxValueLength, this.truncateSuffix)
  ELSE str

RECURSIVE JoinLines(_)
\* result.join('\n')
JoinLines(lines) ==
  IF lines = <<>> THEN <<>>
  ELSE IF Len(lines) = 1 THEN lines[1]
  ELSE lines[1] \o LF \o JoinLines(Tail(lines))

\* The error render throws
DepthError(this) == [message |-> "Maximum rendering depth exceeded", maxDepth |-> this.maxDepth]

RECURSIVE Renderer_render(_, _, _, _, _)
RECURSIVE RenderChildren(_, _, _, _, _, _)
\* The for loop of render from child i on: the prefixes of the 'ascii' style
\* are three cells each, so padEnd adds nothing
RenderChildren(h, r, children, i, prefix, lines) ==
  IF i > Len(children) THEN [h |-> h, out |-> JoinLines(lines), thrown |-> {}]
  ELSE LET child == children[i]
       IN IF NodeHidden(h, child) THEN RenderChildren(h, r, children, i + 1, prefix, lines)
          ELSE LET indent == AsciiIndenter(children, i)
                   nodePrefix == AsciiEnumerator(children, i)
                   item == formatValue(h.renderers[r], NodeValue(h, child))
                   line == prefix \o nodePrefix \o item
                   childRenderer == IF child.kind = "Twig" THEN h.twigs[child.ref].renderer
                                    ELSE r
                   childOutput == Renderer_render(h, childRenderer, child, FALSE,
                                                  prefix \o indent)
               IN IF childOutput.thrown # {} THEN childOutput
                  ELSE RenderChildren(childOutput.h, r, children, i + 1, prefix,
                                      lines \o <<line>> \o
                                        (IF childOutput.out # <<>> THEN <<childOutput.out>>
                                         ELSE <<>>))

\* render(node, isRoot, prefix) of Renderer r: the heap it leaves, the string
\* it returns and the error it throws, if any
Renderer_render(h, r, node, isRoot, prefix) ==
  IF h.renderers[r].depth > h.renderers[r].maxDepth
    THEN [h |-> h, out |-> <<>>, thrown |-> {DepthError(h.renderers[r])}]
  ELSE LET entered == [h EXCEPT !.renderers[r].depth = @ + 1]
           tried ==
             IF NodeHidden(entered, node) THEN [h |-> entered, out |-> <<>>, thrown |-> {}]
             ELSE RenderChildren(entered, r, NodeChildrenOf(entered, node), 1, prefix,
                                 IF isRoot /\ NodeValue(entered, node) # <<>>
                                   THEN <<formatValue(entered.renderers[r],
                                                      NodeValue(entered, node))>>
                                   ELSE <<>>)
       IN [tried EXCEPT !.h.renderers[r].depth = @ - 1]

\* new Twig(): the Twig and the Renderer of its renderer field
NewTwig(h) ==
  LET made == Append(h.renderers, NewRenderer(<<>>))
  IN [h |-> [twigs |-> Append(h.twigs,
                              [valueStr |-> <<>>, isHidden |-> FALSE, childrenData |-> <<>>,
                               renderer |-> Len(made), data |-> {}]),
             renderers |-> made],
      ref |-> Len(h.twigs) + 1]

Twig_hide(h, n, hide) == [h EXCEPT !.twigs[n].isHidden = hide]

\* root(value): value a Twig or a string
Twig_root(h, n, value) ==
  IF value.kind = "Twig"
    THEN [h EXCEPT !.twigs[n].valueStr = h.twigs[value.ref].valueStr,
                   !.twigs[n].childrenData = h.twigs[value.ref].childrenData,
                   !.twigs[n].data = h.twigs[value.ref].data]
    ELSE [h EXCEPT !.twigs[n].valueStr = value.valueStr]

\* normalize of child: a string becomes a Leaf
Normalize(item) == IF item.kind = "string" THEN LeafOf(item.valueStr, FALSE, {}) ELSE item

RECURSIVE AppendAll(_, _)
AppendAll(newChildren, items) ==
  IF items = <<>> THEN newChildren
  ELSE AppendAll(NodeChildren_append(newChildren, Normalize(Head(items))), Tail(items))

\* child(...items), none of the items an array
Twig_child(h, n, items) ==
  [h EXCEPT !.twigs[n].childrenData = AppendAll(@, items)]

Twig_useRenderer(h, n, r) == [h EXCEPT !.twigs[n].renderer = r]

Twig_setData(h, n, data) == [h EXCEPT !.twigs[n].data = {data}]

Twig_toString(h, n) == Renderer_render(h, h.twigs[n].renderer, TwigRef(n), TRUE, <<>>)

RECURSIVE Twig_clone(_, _)
RECURSIVE CloneLoop(_, _, _, _)
\* The for loop of clone from child i on: what append returns is dropped, so
\* newChildren is what it was; a Twig among the children is cloned all the
\* same
CloneLoop(h, children, i, newChildren) ==
  IF i > Len(children) THEN [h |-> h, newChildren |-> newChildren]
  ELSE IF children[i].kind = "Twig"
    THEN LET cloned == Twig_clone(h, children[i].ref)
             dropped == NodeChildren_append(newChildren, TwigRef(cloned.ref))
         IN CloneLoop(cloned.h, children, i + 1, newChildren)
  ELSE LET dropped == NodeChildren_append(newChildren, children[i])
       IN CloneLoop(h, children, i + 1, newChildren)

\* clone() of Twig n: the heap it leaves and the Twig it returns
Twig_clone(h, n) ==
  LET made == NewTwig(h)
      this == h.twigs[n]
      copied == [made.h EXCEPT !.twigs[made.ref].valueStr = this.valueStr,
                               !.twigs[made.ref].isHidden = this.isHidden,
                               !.twigs[made.ref].data = this.data]
      looped == CloneLoop(copied, this.childrenData, 1, <<>>)
  IN [h |-> [looped.h EXCEPT !.twigs[made.ref].childrenData = looped.newChildren,
                             !.twigs[made.ref].renderer = this.renderer],
      ref |-> made.ref]

RECURSIVE Height(_, _)
\* The nesting depth of a node that is not hidden: the levels of nodes that
\* are not hidden below it
Height(h, node) ==
  LET shown == {i \in DOMAIN NodeChildrenOf(h, node) :
                  ~NodeHidden(h, NodeChildrenOf(h, node)[i])}
  IN IF shown = {} THEN 0
     ELSE 1 + Max({Height(h, NodeChildrenOf(h, node)[i]) : i \in shown})

MaxNew == 2
MaxConfigured == 1
MaxTwigs == 4
MaxChildren == 2
StringOf(str) ==
  [kind |-> "string", ref |-> 0, valueStr |-> str, isHidden |-> FALSE, data |-> {}]
TwigValues == {StringOf(<<97>>)}
TwigItems(h) == {StringOf(<<120>>)} \cup {TwigRef(n) : n \in DOMAIN h.twigs}
RendererConfigs == {[maxDepth |-> 0]}

\* The Renderers that were given a maxDepth
Configured(h) == {r \in DOMAIN h.renderers : h.renderers[r].maxDepth # 100}

Heap == [twigs |-> twigs, renderers |-> renderers]

(***************************************************************************)
(* SpecTree: Twigs are made and given a value, Renderers are made, the     *)
(* methods of the Twigs are called and the Twigs rendered.  The programs   *)
(* are those that put a Twig below one made before it, so that none is     *)
(* below itself, that tell a Twig to use a Renderer given a maxDepth, and  *)
(* that, once a Twig was cloned, go on with clone and toString.  receiver  *)
(* is the Twig of the last call, returned the Twig returned and the error  *)
(* thrown, output the string of the last toString.                         *)
(***************************************************************************)
InitTree ==
  /\ pc = "ready"
  /\ twigs = <<>>
  /\ renderers = <<>>
  /\ progress = <<>>
  /\ builder = <<>>
  /\ calls = <<>>
  /\ session = <<>>
  /\ IdleRune
  /\ IdleChrono
  /\ spinner = <<>>
  /\ IdleWhirl
  /\ IdleCursor
  /\ IdleWink

\* The call named method on Twig n left the heap h, returned Twig ref (0:
\* none), the string out or threw
TreeCall(method, n, h, ref, out, thrown) ==
  /\ Len(h.twigs) <= MaxTwigs
  /\ Cardinality(Configured(h)) <= MaxConfigured
  /\ \A m \in DOMAIN h.twigs : Len(h.twigs[m].childrenData) <= MaxChildren
  /\ pc' = method
  /\ receiver' = n
  /\ twigs' = h.twigs
  /\ renderers' = h.renderers
  /\ returned' = [ref |-> ref, cmd |-> thrown]
  /\ output' = out
  /\ UNCHANGED <<options, utilAvailable, input, instances, before, inflight, message,
                 charVars, passVars, truncateVars, spinner, whirlVars, cursorVars, winkVars,
                 progress, builder, calls, session>>

\* new Twig().root(value)
TwigNew ==
  \E value \in TwigValues :
    LET made == NewTwig(Heap)
    IN /\ Len(twigs) < MaxNew
       /\ TreeCall("new Twig", 0, Twig_root(made.h, made.ref, value), made.ref, <<>>, {})

RendererNew ==
  \E config \in RendererConfigs :
    TreeCall("new Renderer", 0,
             [Heap EXCEPT !.renderers = Append(@, NewRenderer(config))], 0, <<>>, {})

TwigChild ==
  \E n \in DOMAIN twigs, item \in TwigItems(Heap) :
    /\ Len(twigs) <= MaxNew
    /\ item.kind = "Twig" => item.ref > n
    /\ TreeCall("child", n, Twig_child(Heap, n, <<item>>), n, <<>>, {})

TwigHide ==
  \E n \in DOMAIN twigs :
    /\ Len(twigs) <= MaxNew
    /\ TreeCall("hide", n, Twig_hide(Heap, n, TRUE), n, <<>>, {})

TwigUseRenderer ==
  \E n \in DOMAIN twigs, r \in Configured(Heap) :
    /\ Len(twigs) <= MaxNew
    /\ TreeCall("useRenderer", n, Twig_useRenderer(Heap, n, r), n, <<>>, {})

TwigClone ==
  \E n \in DOMAIN twigs :
    LET cloned == Twig_clone(Heap, n)
    IN TreeCall("clone", n, cloned.h, cloned.ref, <<>>, {})

TwigToString ==
  \E n \in DOMAIN twigs :
    LET r == Twig_toString(Heap, n)
    IN TreeCall("toString", n, r.h, 0, r.out, r.thrown)

NextTree ==
  \/ TwigNew \/ RendererNew \/ TwigChild \/ TwigHide \/ TwigUseRenderer
  \/ TwigClone \/ TwigToString

SpecTree == InitTree /\ [][NextTree]_vars

\* C34: rendering a tree whose nesting depth exceeds the renderer's maxDepth
\* fails with the error 'Maximum rendering depth (maxDepth) exceeded', for
\* every tree shape including chains of nested Twig nodes; and the depth
\* counter of the renderer is back at its previous value after every render
\* call, whether it returned or threw.
C34_DepthLimitEnforced ==
  /\ \A r \in DOMAIN renderers : renderers[r].depth = 0
  /\ (/\ pc = "toString"
      /\ ~twigs[receiver].isHidden
      /\ Height(Heap, TwigRef(receiver)) > renderers[twigs[receiver].renderer].maxDepth) =>
       returned.cmd = {DepthError(renderers[twigs[receiver].renderer])}

RECURSIVE SameTree(_, _, _)
\* Node b is a copy of node a: the same value, hidden flag and data, and
\* children that are copies of a's, in the same order; the copy of a Twig is
\* another Twig
SameTree(h, a, b) ==
  /\ a.kind = b.kind
  /\ a.kind = "Twig" => a.ref # b.ref
  /\ NodeValue(h, a) = NodeValue(h, b)
  /\ NodeHidden(h, a) = NodeHidden(h, b)
  /\ NodeData(h, a) = NodeData(h, b)
  /\ Len(NodeChildrenOf(h, a)) = Len(NodeChildrenOf(h, b))
  /\ \A i \in DOMAIN NodeChildrenOf(h, a) :
       SameTree(h, NodeChildrenOf(h, a)[i], NodeChildrenOf(h, b)[i])

\* C35: Twig.clone() returns an independent deep copy: the clone has the
\* same value, hidden flag, data and the same children (recursively cloned
\* Twigs and copied Leafs, in the same order), so that clone().toString()
\* equals the original's toString().
C35_CloneIsDeepCopy ==
  pc = "clone" =>
    /\ SameTree(Heap, TwigRef(receiver), TwigRef(returned.ref))
    /\ Twig_toString(Heap, returned.ref).out = Twig_toString(Heap, receiver).out
    /\ Twig_toString(Heap, returned.ref).thrown = Twig_toString(Heap, receiver).thrown

(***************************************************************************)
(* TwigBuilder.  The object holds the numbers of its Twigs: root,          *)
(* currentNode and the nodeStack, the last pushed last.  A method works on *)
(* the heap and the object and says what it threw.  with, which is root   *)
(* of the root, and style, which goes to the style preset of the root's    *)
(* renderer, are left out.                                                 *)
(***************************************************************************)
\* new TwigBuilder(value): value is {} when left out
NewTwigBuilder(h, value) ==
  LET made == NewTwig(h)
      named == IF value # {} /\ value # {<<>>}
                 THEN Twig_root(made.h, made.ref, StringOf(CHOOSE v \in value : TRUE))
                 ELSE made.h
  IN [h |-> named,
      this |-> [root |-> made.ref, currentNode |-> made.ref, nodeStack |-> <<>>],
      thrown |-> {}]

TwigBuilder_add(b, child) == [b EXCEPT !.h = Twig_child(@, b.this.currentNode, <<child>>)]

TwigBuilder_addMany(b, children) ==
  [b EXCEPT !.h = Twig_child(@, b.this.currentNode, children)]

beginNode(b, value) ==
  LET pushed1 == [b EXCEPT !.this.nodeStack = Append(@, b.this.currentNode)]
      made == NewTwig(pushed1.h)
      newNode == made.ref
      rooted == Twig_root(made.h, newNode, StringOf(value))
  IN [pushed1 EXCEPT !.h = Twig_child(rooted, pushed1.this.currentNode, <<TwigRef(newNode)>>),
                     !.this.currentNode = newNode]

\* endNode that returns when no node is open
endNode_Silent(b) ==
  IF b.this.nodeStack = <<>> THEN b
  ELSE [b EXCEPT !.this.currentNode = b.this.nodeStack[Len(b.this.nodeStack)],
                 !.this.nodeStack = SubSeq(@, 1, Len(@) - 1)]

\* endNode: pop() of an empty array returns undefined and leaves it empty
endNode(b) ==
  IF b.this.nodeStack = <<>> THEN [b EXCEPT !.thrown = {"No active node to end"}]
  ELSE [b EXCEPT !.this.currentNode = b.this.nodeStack[Len(b.this.nodeStack)],
                 !.this.nodeStack = SubSeq(@, 1, Len(@) - 1)]

TwigBuilder_data(b, data) == [b EXCEPT !.h = Twig_setData(@, b.this.currentNode, data)]

\* build(): the builder it leaves; it returns this.root
build(b) ==
  IF Len(b.this.nodeStack) > 0
    THEN [b EXCEPT !.this.currentNode = b.this.root, !.this.nodeStack = <<>>]
    ELSE b

MaxNodes == 2
MaxLeaves == 2

\* The Leafs among the children of the Twigs of h
Leaves(h) ==
  UNION {{<<m, i>> : i \in {j \in DOMAIN h.twigs[m].childrenData :
                                 h.twigs[m].childrenData[j].kind = "Leaf"}} :
           m \in DOMAIN h.twigs}

BuilderValues == {<<97>>}
BuilderChildren == {StringOf(<<120>>)}

(***************************************************************************)
(* SpecBuilder: new TwigBuilder(value), then any call of its methods.      *)
(* before holds the object of before the call; calls counts the beginNode  *)
(* calls and the endNode calls that returned, and says whether build was   *)
(* called.                                                                 *)
(***************************************************************************)
InitBuilder ==
  /\ pc = "new TwigBuilder"
  /\ \E value \in {{}} \cup {{v} : v \in BuilderValues} :
       LET b == NewTwigBuilder([twigs |-> <<>>, renderers |-> <<>>], value)
       IN /\ twigs = b.h.twigs
          /\ renderers = b.h.renderers
          /\ builder = b.this
  /\ calls = [beginNode |-> 0, endNode |-> 0, build |-> FALSE]
  /\ progress = <<>>
  /\ session = <<>>
  /\ IdleRune
  /\ IdleChrono
  /\ spinner = <<>>
  /\ IdleWhirl
  /\ IdleCursor
  /\ IdleWink

BuilderEntering == [h |-> Heap, this |-> builder, thrown |-> {}]

\* The method named method left b and returned Twig ref (0: the builder)
BuilderCall(method, b, ref) ==
  /\ Len(b.h.twigs) <= MaxNodes + 1
  /\ Cardinality(Leaves(b.h)) <= MaxLeaves
  /\ pc' = method
  /\ before' = builder
  /\ twigs' = b.h.twigs
  /\ renderers' = b.h.renderers
  /\ builder' = b.this
  /\ returned' = [ref |-> IF b.thrown # {} THEN 0 ELSE ref, cmd |-> b.thrown]
  /\ calls' = [beginNode |-> calls.beginNode + (IF method = "beginNode" THEN 1 ELSE 0),
               endNode |-> calls.endNode
                             + (IF method = "endNode" /\ b.thrown = {} THEN 1 ELSE 0),
               build |-> calls.build \/ method = "build"]
  /\ UNCHANGED <<options, utilAvailable, input, output, instances, receiver, inflight,
                 message, charVars, passVars, truncateVars, spinner, whirlVars, cursorVars,
                 winkVars, progress, session>>

Add ==
  \E child \in BuilderChildren :
    BuilderCall("add", TwigBuilder_add(BuilderEntering, child), 0)

AddMany ==
  \E children \in {<<>>} \cup {<<c, d>> : c \in BuilderChildren, d \in BuilderChildren} :
    BuilderCall("addMany", TwigBuilder_addMany(BuilderEntering, children), 0)

BeginNode ==
  \E value \in BuilderValues : BuilderCall("beginNode", beginNode(BuilderEntering, value), 0)

EndNode == BuilderCall("endNode", endNode(BuilderEntering), 0)

Data == BuilderCall("data", TwigBuilder_data(BuilderEntering, 1), 0)

Build == BuilderCall("build", build(BuilderEntering), builder.root)

NextBuilder == Add \/ AddMany \/ BeginNode \/ EndNode \/ Data \/ Build

SpecBuilder == InitBuilder /\ [][NextBuilder]_vars

\* C36: for any sequence of beginNode, endNode, add, addMany and data calls
\* on a TwigBuilder, the depth of the node stack is the number of beginNode
\* calls less the number of endNode calls that returned, and currentNode is
\* the root exactly when the stack is empty; endNode on an empty stack
\* throws 'No active node to end' and leaves currentNode and the stack as
\* they were; build() always returns the root and leaves the stack empty
\* with currentNode = root.
C36_StackMatchesOpenNodes ==
  /\ ~calls.build => Len(builder.nodeStack) = calls.beginNode - calls.endNode
  /\ builder.currentNode = builder.root <=> builder.nodeStack = <<>>
  /\ pc = "endNode" =>
       /\ before.nodeStack = <<>> <=> returned.cmd = {"No active node to end"}
       /\ returned.cmd # {} => builder = before
       /\ returned.cmd = {} =>
            /\ builder.nodeStack = SubSeq(before.nodeStack, 1, Len(before.nodeStack) - 1)
            /\ builder.currentNode = before.nodeStack[Len(before.nodeStack)]
  /\ pc = "build" =>
       /\ returned.ref = builder.root
       /\ returned.cmd = {}
       /\ builder.root = before.root
       /\ builder.nodeStack = <<>>
       /\ builder.currentNode = builder.root

\* Two nodes were begun and ended one after the other, and endNode was called
\* once more: it threw and the builder is at its root as before
C36_Witness ==
  /\ pc = "endNode"
  /\ returned.cmd = {"No active node to end"}
  /\ calls = [beginNode |-> 2, endNode |-> 2, build |-> FALSE]
  /\ Len(twigs) = 3
  /\ Len(twigs[builder.root].childrenData) = 2
  /\ builder = before
  /\ builder.currentNode = builder.root

(***************************************************************************)
(* FuzzyFilter and the prompt of filter().  A score is {} for false or the *)
(* set of the one number; the closure variables of filter() and the        *)
(* FuzzyFilter they belong to are one record.  Strings are of letters of   *)
(* the ASCII range and the separators of the word start pattern, so that   *)
(* toLowerCase moves A-Z only and escapeRegExp changes nothing that the    *)
(* pattern matches.  Writing to the screen, the reading of a directory     *)
(* when no options are given and the keys that the readline interface      *)
(* handles by itself are left out.                                         *)
(***************************************************************************)
ToLowerCase(str) ==
  [i \in DOMAIN str |-> IF str[i] \in 65..90 THEN str[i] + 32 ELSE str[i]]

\* String.prototype.startsWith; the pattern at the 0-based index at
StartsWithAt(str, pattern, at) ==
  /\ at + Len(pattern) <= Len(str)
  /\ \A k \in DOMAIN pattern : str[at + k] = pattern[k]

\* String.prototype.indexOf(letter, from), 0-based, -1 when there is none
IndexOf(str, letter, from) ==
  LET found == {i \in 0..(Len(str) - 1) : i >= from /\ str[i + 1] = letter}
  IN IF found = {} THEN -1 ELSE CHOOSE i \in found : \A j \in found : i <= j

\* The characters of [-_ /]
WordSeparators == {45, 95, 32, 47}

\* The index of the match of (^|[-_ /]) followed by the pattern: {} when
\* there is none
WordStartMatch(str, pattern) ==
  LET found == {i \in 0..Len(str) :
                  \/ i = 0 /\ StartsWithAt(str, pattern, 0)
                  \/ /\ i < Len(str)
                     /\ str[i + 1] \in WordSeparators
                     /\ StartsWithAt(str, pattern, i + 1)}
  IN IF found = {} THEN {} ELSE {CHOOSE i \in found : \A j \in found : i <= j}

RECURSIVE LetterIndexes(_, _, _, _)
\* The loop over the letters of the pattern: {} when one is not found, or
\* the set of the one array of indexes
LetterIndexes(str, pattern, lastIndex, indexes) ==
  IF pattern = <<>> THEN {indexes}
  ELSE LET index == IndexOf(str, Head(pattern), lastIndex + 1)
       IN IF index = -1 THEN {}
          ELSE LetterIndexes(str, Tail(pattern), index, Append(indexes, index))

\* The score of the fuzzy match: 3 and the spread of the indexes, or 3 and
\* the one index
SpreadScore(indexes) ==
  IF Len(indexes) > 1 THEN 3 + (indexes[Len(indexes)] - indexes[1])
  ELSE 3 + indexes[1]

\* fuzzyMatchScore after its two toLowerCase calls
MatchScore(string, pattern) ==
  IF string = pattern THEN {0}
  ELSE IF StartsWithAt(string, pattern, 0) THEN {1}
  ELSE IF WordStartMatch(string, pattern) # {}
    THEN {2 + i : i \in WordStartMatch(string, pattern)}
  ELSE {SpreadScore(indexes) : indexes \in LetterIndexes(string, pattern, -1, <<>>)}

fuzzyMatchScore(this, str, query) ==
  IF ~this.caseSensitive THEN MatchScore(ToLowerCase(str), ToLowerCase(query))
  ELSE MatchScore(str, query)

\* results.push({ item: option, score }) when the score is not false
Pushed(results, option, score) ==
  results \o [i \in 1..Cardinality(score) |->
                [item |-> option, score |-> CHOOSE n \in score : TRUE]]

RECURSIVE Collect(_, _, _, _)
\* The for loop of fuzzySearch with its break; a result is an item and its
\* score
Collect(this, query, remaining, results) ==
  IF remaining = <<>> THEN results
  ELSE IF Len(Pushed(results, Head(remaining), fuzzyMatchScore(this, Head(remaining), query)))
            >= this.maxResults * 2
    THEN Pushed(results, Head(remaining), fuzzyMatchScore(this, Head(remaining), query))
  ELSE Collect(this, query, Tail(remaining),
               Pushed(results, Head(remaining),
                      fuzzyMatchScore(this, Head(remaining), query)))

\* last put after the results of a score not greater than its own
InsertByScore(sorted, last) ==
  SelectSeq(sorted, LAMBDA r : r.score <= last.score) \o <<last>>
    \o SelectSeq(sorted, LAMBDA r : r.score > last.score)

RECURSIVE SortByScore(_)
\* results.sort((a, b) => a.score - b.score): the sort is stable
SortByScore(results) ==
  IF results = <<>> THEN <<>>
  ELSE InsertByScore(SortByScore(SubSeq(results, 1, Len(results) - 1)),
                     results[Len(results)])

\* .map(result => result.item)
Items(results) == [i \in DOMAIN results |-> results[i].item]

fuzzySearch(this, query) ==
  IF query = <<>> THEN Slice(this.options, this.maxResults)
  ELSE Items(Slice(SortByScore(Collect(this, query, this.options, <<>>)), this.maxResults))

\* new FuzzyFilter(options) and the first lines of filter()
NewSession(given) ==
  LET this == [options |-> given.options,
               caseSensitive |-> FieldOr(given, "caseSensitive", FALSE),
               maxResults |-> FieldOr(given, "maxResults", 100)]
  IN [this |-> this,
      currentInput |-> <<>>,
      currentResults |-> fuzzySearch(this, <<>>),
      selectedIndex |-> 0,
      resolved |-> {},
      listening |-> TRUE,
      exited |-> FALSE]

\* updateSearch that leaves selectedIndex as it is
updateSearch_Unclamped(s) ==
  [s EXCEPT !.currentResults = fuzzySearch(s.this, s.currentInput)]

\* selectedIndex = Math.min(selectedIndex, Math.max(0, currentResults.length - 1))
ClampSelected(s) ==
  [s EXCEPT !.selectedIndex = Min2(@, Max2(0, Len(s.currentResults) - 1))]

updateSearch(s) ==
  ClampSelected([s EXCEPT !.currentResults = fuzzySearch(s.this, s.currentInput)])

\* resolve(currentResults[selectedIndex]): a promise is resolved once
ResolveSelected(s) ==
  IF s.resolved # {} THEN s
  ELSE [s EXCEPT !.resolved = IF s.selectedIndex + 1 \in DOMAIN s.currentResults
                                THEN {s.currentResults[s.selectedIndex + 1]}
                                ELSE {"undefined"}]

\* The handler of the 'close' event of the readline interface; its own
\* cleanup() finds the interface closed
OnClose(s) ==
  IF Len(s.currentResults) > 0 THEN ResolveSelected([s EXCEPT !.listening = FALSE])
  ELSE [s EXCEPT !.listening = FALSE, !.exited = TRUE]

\* cleanup(): the keypress listener is removed and rl.close() emits 'close'
\* when the interface was open
cleanup(s) == IF s.listening THEN OnClose(s) ELSE s

\* keypressHandler(str, key): key is {} when there is none, early says that
\* DEBOUNCE_TIME has not passed since the last key
keypressHandler(s, str, key, early) ==
  IF key = {} \/ early THEN s
  ELSE LET k == CHOOSE x \in key : TRUE
       IN IF k.name = "return"
            THEN IF Len(s.currentResults) > 0 THEN ResolveSelected(cleanup(s)) ELSE s
          ELSE IF k.name = "escape" \/ (k.ctrl /\ k.name = "c")
            THEN [cleanup(s) EXCEPT !.exited = TRUE]
          ELSE IF k.name = "up"
            THEN IF s.selectedIndex > 0 THEN [s EXCEPT !.selectedIndex = @ - 1] ELSE s
          ELSE IF k.name = "down"
            THEN IF s.selectedIndex < Len(s.currentResults) - 1
                   THEN [s EXCEPT !.selectedIndex = @ + 1] ELSE s
          ELSE IF k.name = "backspace"
            THEN IF Len(s.currentInput) > 0
                   THEN updateSearch([s EXCEPT !.currentInput = SubSeq(@, 1, Len(@) - 1)])
                   ELSE s
          ELSE IF ~k.ctrl /\ ~k.meta /\ Len(str) = 1
            THEN updateSearch([s EXCEPT !.currentInput = @ \o str])
          ELSE s

MaxInput == 2
FilterLetters == {97, 98, 65}
FilterOptionLists ==
  {<<<<98, 97>>, <<98, 98, 97>>, <<97>>>>,
   <<<<97, 45, 98>>, <<97, 98>>, <<98>>, <<65>>>>,
   <<>>}
FilterMaxResults == {1, 2}
KeyNamed(name) == [name |-> name, ctrl |-> FALSE, meta |-> FALSE]

(***************************************************************************)
(* SpecFilter: new FuzzyFilter(options).filter(), then the keys pressed    *)
(* until the promise is resolved or the process exits.  before holds the   *)
(* closure variables of before the key.                                    *)
(***************************************************************************)
InitFilter ==
  /\ pc = "filter"
  /\ \E list \in FilterOptionLists, maxResults \in FilterMaxResults,
        caseSensitive \in BOOLEAN :
       session = NewSession([options |-> list, maxResults |-> maxResults,
                             caseSensitive |-> caseSensitive])
  /\ progress = <<>>
  /\ twigs = <<>>
  /\ renderers = <<>>
  /\ builder = <<>>
  /\ calls = <<>>
  /\ IdleRune
  /\ IdleChrono
  /\ spinner = <<>>
  /\ IdleWhirl
  /\ IdleCursor
  /\ IdleWink

\* The handler of the event named event left s
FilterStep(event, s) ==
  /\ session.listening
  /\ Len(s.currentInput) <= MaxInput
  /\ pc' = event
  /\ before' = session
  /\ session' = s
  /\ UNCHANGED <<options, utilAvailable, input, output, instances, receiver, returned,
                 inflight, message, charVars, passVars, truncateVars, spinner, whirlVars,
                 cursorVars, winkVars, progress, twigs, renderers, builder, calls>>

KeyReturn == FilterStep("return", keypressHandler(session, <<13>>, {KeyNamed("return")}, FALSE))

KeyEscape == FilterStep("escape", keypressHandler(session, <<27>>, {KeyNamed("escape")}, FALSE))

KeyUp == FilterStep("up", keypressHandler(session, <<>>, {KeyNamed("up")}, FALSE))

KeyDown == FilterStep("down", keypressHandler(session, <<>>, {KeyNamed("down")}, FALSE))

KeyBackspace ==
  FilterStep("backspace", keypressHandler(session, <<127>>, {KeyNamed("backspace")}, FALSE))

KeyLetter ==
  \E c \in FilterLetters :
    FilterStep("letter", keypressHandler(session, <<c>>, {KeyNamed("letter")}, FALSE))

KeyDropped ==
  \E key \in {{}, {KeyNamed("down")}} :
    FilterStep("dropped", keypressHandler(session, <<>>, key, key # {}))

CloseEvent == FilterStep("close", OnClose(session))

NextFilter ==
  \/ KeyReturn \/ KeyEscape \/ KeyUp \/ KeyDown \/ KeyBackspace \/ KeyLetter \/ KeyDropped
  \/ CloseEvent

SpecFilter == InitFilter /\ [][NextFilter]_vars

\* The score of an option that matches the input
ScoreOf(str) == CHOOSE n \in fuzzyMatchScore(session.this, str, session.currentInput) : TRUE

Matching == {i \in DOMAIN session.this.options :
               fuzzyMatchScore(session.this, session.this.options[i],
                               session.currentInput) # {}}

\* C37: FuzzyFilter.fuzzySearch(query) for a non-empty query returns the
\* maxResults best matches: the result is sorted by ascending score, holds
\* only options for which fuzzyMatchScore is not false, and no matching
\* option left out of the result has a strictly lower score than an option
\* included in it, for any number of options.
C37_BestMatchesReturned ==
  session.currentInput # <<>> =>
    LET found == fuzzySearch(session.this, session.currentInput)
    IN /\ session.currentResults = found
       /\ \A i \in DOMAIN found :
            fuzzyMatchScore(session.this, found[i], session.currentInput) # {}
       /\ \A i, j \in DOMAIN found : i <= j => ScoreOf(found[i]) <= ScoreOf(found[j])
       /\ \A i \in Matching :
            session.this.options[i] \notin Range(found) =>
              \A j \in DOMAIN found : ScoreOf(session.this.options[i]) >= ScoreOf(found[j])

\* C38: in the filter prompt, after any sequence of keypresses (up, down,
\* backspace, printable characters, return),
\* 0 <= selectedIndex <= max(0, currentResults.length - 1); whenever the
\* result list is not empty selectedIndex addresses a result, and return
\* resolves only with an element of the current result list, never when the
\* list is empty.
C38_SelectionWithinResults ==
  /\ 0 <= session.selectedIndex
  /\ session.selectedIndex <= Max2(0, Len(session.currentResults) - 1)
  /\ session.currentResults # <<>> =>
       session.selectedIndex + 1 \in DOMAIN session.currentResults
  /\ session.resolved # {} =>
       /\ session.currentResults # <<>>
       /\ session.resolved = {session.currentResults[session.selectedIndex + 1]}
  /\ pc = "return" =>
       /\ session.resolved # {} <=> before.currentResults # <<>>
       /\ session.currentResults = before.currentResults
       /\ session.selectedIndex = before.selectedIndex

\* The second of two results was selected when a letter left one result, and
\* the selection moved to it
C38_Witness ==
  /\ pc = "letter"
  /\ before.selectedIndex = 1
  /\ Len(before.currentResults) = 2
  /\ Len(session.currentResults) = 1
  /\ session.selectedIndex = 0
====
